---- MODULE Spec2Model ----
(***************************************************************************)
(* A model of the value and binding layer of the Gulf of Mexico            *)
(* interpreter (src/gulfofmexico/builtin.py): the List, String and Number  *)
(* values with their user-index indexers, the Variable with its            *)
(* confidence-ordered lifetimes, the setter-getters of db_signal, the      *)
(* conversions db_to_boolean, db_to_number and db_to_string, the negation  *)
(* db_not, the Map, the initialisation of the module's keyword tables, and *)
(* the when statement of the statement executor.                           *)
(*                                                                         *)
(* Conventions.                                                            *)
(*  - A Python sequence is a TLA+ sequence; the Python position p (from 0) *)
(*    is the TLA+ position p + 1.  Negative Python positions count from    *)
(*    the end, as in Python (PyValid, PyAt).                               *)
(*  - The value of a Number used as an index is a rational.  It is kept    *)
(*    scaled by KeyDen: the integer q stands for the number q / KeyDen.    *)
(*  - A character string is a sequence of one-character strings.           *)
(*  - A handler is an operator from the receiver (and arguments) to the    *)
(*    receiver afterwards, the error raised ("" for none) and the value    *)
(*    returned.  An action applies the handler and records the call in     *)
(*    `last` together with the receiver as it was before the call.         *)
(***************************************************************************)
EXTENDS Integers, Sequences, FiniteSets, TLC

VARIABLES
    recv,     \* what the run exercises: "List", "String", "Number", "Variable",
              \* "Signal", "When", "Conv", "Map" or "Module"
    lst,      \* the GulfOfMexicoList: values, indexer, namespace["length"]
    str,      \* the GulfOfMexicoString: value, indexer, namespace["length"]
    num,      \* the GulfOfMexicoNumber: its integral value, int or float
    var,      \* the Variable: lifetimes, prev_values
    now,      \* time.time(), in whole units
    nops,     \* number of mutating calls made on the receiver so far
    last,     \* the last call: op, index, val, err, ret, pre (receiver before)
    signals,  \* the setter-getters made by db_signal and the objects they close over
    watch,    \* the watched variable, the when-watcher and the runs of its body
    conv,     \* the value the conversion functions are applied to
    map,      \* the GulfOfMexicoMap: self_dict, its items in insertion order
    mod       \* the built-in module while it is initialised: the statement
              \* reached, the names bound, the keyword tables

vars == <<recv, lst, str, num, var, now, nops, last, signals, watch, conv, map, mod>>

(***************************************************************************)
(* Bounds of the model.                                                    *)
(***************************************************************************)
KeyDen == 4      \* user indices are multiples of 1 / KeyDen
MaxInit == 3     \* longest list / string a run starts from
MaxOps == 2      \* mutating calls per run on a List, String or Number
MaxSignals == 2  \* setter-getters made per run
MaxCalls == 3    \* calls of setter-getters per run
MaxAssigns == 4  \* assignments to the watched variable per run
MaxConvs == 2    \* conversions applied in a row per run
MaxAdds == 3     \* add_lifetime calls and executed lines per run on a Variable
MaxTime == 2     \* the clock stops here

(***************************************************************************)
(* Python helpers.                                                         *)
(***************************************************************************)
Max(a, b) == IF a >= b THEN a ELSE b
Min(a, b) == IF a <= b THEN a ELSE b
SetMax(S) == CHOOSE x \in S : \A y \in S : y <= x

\* seq[p] is defined in Python iff -len <= p < len
PyValid(s, p) == -Len(s) <= p /\ p < Len(s)
PyAt(s, p) == IF p < 0 THEN s[p + Len(s) + 1] ELSE s[p + 1]
\* a slice bound: negative bounds count from the end, all are clipped to 0..len
PyClip(s, n) == IF n < 0 THEN Max(n + Len(s), 0) ELSE Min(n, Len(s))
PyUpTo(s, n) == SubSeq(s, 1, PyClip(s, n))                \* s[:n]
PyFrom(s, n) == SubSeq(s, PyClip(s, n) + 1, Len(s))       \* s[n:]
\* seq[p] = v for a valid p
PySet(s, p, v) == [s EXCEPT ![IF p < 0 THEN p + Len(s) + 1 ELSE p + 1] = v]
\* seq.pop(p) for a valid p >= 0
PyDel(s, p) == SubSeq(s, 1, p) \o SubSeq(s, p + 2, Len(s))

\* round(q / KeyDen): Python rounds halves to the even neighbour
py_round(q) ==
    LET f == q \div KeyDen
        r == q % KeyDen
    IN  IF 2 * r < KeyDen THEN f
        ELSE IF 2 * r > KeyDen THEN f + 1
        ELSE IF f % 2 = 0 THEN f ELSE f + 1

\* is_int(q / KeyDen): min(x % 1, 1 - x % 1) < FLOAT_TO_INT_PREC
is_int(q) == q % KeyDen = 0

\* round(max((index.value + 2) // 1, 0))
nearest_int_down(q) == Max((q + 2 * KeyDen) \div KeyDen, 0)

(***************************************************************************)
(* Index arguments.                                                        *)
(***************************************************************************)
Num(q) == [t |-> "Number", v |-> q]
Blank == [t |-> "Blank", v |-> 0]        \* GulfOfMexicoSpecialBlankValue
NonNumber == [t |-> "Undefined", v |-> 0] \* a value that is no Number

Outcome(st, err, ret) == [st |-> st, err |-> err, ret |-> ret]

(***************************************************************************)
(* GulfOfMexicoList                                                        *)
(***************************************************************************)
NoElem == 0     \* the None of a call that returns nothing or raises

\* __post_init__: the indexer of a fresh list maps -1, 0, .. to themselves
List_post_init(vs) ==
    [values  |-> vs,
     indexer |-> [q \in {i * KeyDen : i \in -1 .. Len(vs) - 2} |-> q \div KeyDen],
     length  |-> Len(vs)]

\* create_namespace(): refresh namespace["length"]
List_create_namespace(L) == [L EXCEPT !.length = Len(L.values)]

\* a slip: a key the indexer does not hold is taken as its own real index
\* (self.indexer.get(index.value, index.value))
List_access_index_DefaultsToKey(L, index) ==
    IF index.t # "Number" THEN Outcome(L, "NonNumberIndex", NoElem)
    ELSE IF ~(-KeyDen <= index.v /\ index.v <= (Len(L.values) - 1) * KeyDen)
    THEN Outcome(L, "OutOfBounds", NoElem)
    ELSE LET realIndex == IF index.v \in DOMAIN L.indexer
                          THEN L.indexer[index.v] ELSE py_round(index.v)
         IN  IF ~PyValid(L.values, realIndex)
             THEN Outcome(L, "IndexError", NoElem)
             ELSE Outcome(L, "", PyAt(L.values, realIndex))

List_access_index(L, index) ==
    IF index.t # "Number" THEN Outcome(L, "NonNumberIndex", NoElem)
    ELSE IF ~(-KeyDen <= index.v /\ index.v <= (Len(L.values) - 1) * KeyDen)
    THEN Outcome(L, "OutOfBounds", NoElem)
    ELSE IF index.v \notin DOMAIN L.indexer
    THEN Outcome(L, "NoValueAssigned", NoElem)
    ELSE LET realIndex == L.indexer[index.v]
         IN  IF ~PyValid(L.values, realIndex)
             THEN Outcome(L, "IndexError", NoElem)
             ELSE Outcome(L, "", PyAt(L.values, realIndex))

List_assign_index(L, index, val) ==
    IF index.t # "Number" THEN Outcome(L, "NonNumberIndex", NoElem)
    ELSE IF ~(-KeyDen <= index.v /\ index.v <= (Len(L.values) - 1) * KeyDen)
    THEN Outcome(L, "OutOfBounds", NoElem)
    ELSE IF index.v \in DOMAIN L.indexer
    THEN \* self.values[round(index.value)] = val
         \* self.indexer[round(index.value)] = round(index.value)
         LET p == py_round(index.v)
         IN  IF ~PyValid(L.values, p)
             THEN Outcome(L, "IndexError", NoElem)
             ELSE Outcome([L EXCEPT !.values = PySet(L.values, p, val),
                                    !.indexer = (p * KeyDen :> p) @@ L.indexer],
                          "", NoElem)
    ELSE \* assign in the middle of the array
         LET n == nearest_int_down(index.v)
             at == Min(n, Len(L.values))
             vals == SubSeq(L.values, 1, at) \o <<val>>
                         \o SubSeq(L.values, at + 1, Len(L.values))
             ix1 == (index.v :> (n - 1)) @@ L.indexer
             ix2 == [k \in DOMAIN ix1 |->
                        IF k > index.v THEN ix1[k] + 1 ELSE ix1[k]]
         IN  Outcome(List_create_namespace(
                        [L EXCEPT !.values = vals, !.indexer = ix2]),
                     "", NoElem)

db_list_push(L, val) ==
    IF DOMAIN L.indexer = {} THEN Outcome(L, "ValueError", NoElem)
    ELSE LET key == SetMax(DOMAIN L.indexer) + KeyDen
         IN  Outcome(List_create_namespace(
                        [L EXCEPT !.indexer = (key :> (Len(L.values) - 1)) @@ L.indexer,
                                  !.values = Append(L.values, val)]),
                     "", NoElem)

db_list_pop(L, index) ==
    IF index.t = "Blank"
    THEN IF L.values = <<>> THEN Outcome(L, "IndexError", NoElem)
         ELSE Outcome(List_create_namespace(
                         [L EXCEPT !.values = SubSeq(L.values, 1, Len(L.values) - 1)]),
                      "", L.values[Len(L.values)])
    ELSE IF index.t # "Number" \/ ~is_int(index.v)
    THEN Outcome(L, "ExpectedInteger", NoElem)
    ELSE IF ~(-KeyDen <= index.v /\ index.v <= (Len(L.values) - 1) * KeyDen)
    THEN Outcome(L, "OutOfBounds", NoElem)
    ELSE LET p == py_round(index.v) + 1
         IN  IF p >= Len(L.values) THEN Outcome(L, "IndexError", NoElem)
             ELSE Outcome(List_create_namespace(
                             [L EXCEPT !.values = PyDel(L.values, p)]),
                          "", L.values[p + 1])

(***************************************************************************)
(* Conversions to string (the part the String handlers use).               *)
(***************************************************************************)
Str(cs) == [t |-> "String", value |-> cs]

DigitChars == <<"0", "1", "2", "3", "4", "5", "6", "7", "8", "9">>

RECURSIVE Digits(_)
\* the decimal digits of a natural number, as characters
Digits(n) ==
    IF n < 10 THEN <<DigitChars[n + 1]>>
    ELSE Digits(n \div 10) \o <<DigitChars[(n % 10) + 1]>>

\* the parts of a Number that only a non-integral or non-finite float has:
\* the numerator of its fraction over FracDen, and "inf", "nan" or "tiny"
\* (a non-zero magnitude of at most FLOAT_TO_INT_PREC, 1e-09)
FracDen == 2 * KeyDen
Frac(N) == IF "frac" \in DOMAIN N THEN N.frac ELSE 0
Special(N) == IF "special" \in DOMAIN N THEN N.special ELSE ""

RECURSIVE FracDigits(_)
\* the decimal digits of r / FracDen for 0 < r < FracDen
FracDigits(r) ==
    IF r = 0 THEN <<>>
    ELSE <<DigitChars[((10 * r) \div FracDen) + 1]>> \o FracDigits((10 * r) % FracDen)

\* str(self.value): an int prints its digits, a float prints with its
\* fraction (".0" when integral), inf, nan and 1e-09 print as such
py_str(N) ==
    IF Special(N) = "nan" THEN <<"n", "a", "n">>
    ELSE (IF N.neg THEN <<"-">> ELSE <<>>) \o
         (CASE Special(N) = "inf" -> <<"i", "n", "f">>
            [] Special(N) = "tiny" -> <<"1", "e", "-", "0", "9">>
            [] OTHER ->
                 Digits(N.mag) \o
                 (IF ~N.float THEN <<>>
                  ELSE IF Frac(N) = 0 THEN <<".", "0">>
                  ELSE <<".">> \o FracDigits(Frac(N))))

RECURSIVE JoinWith(_, _)
\* sep.join(parts)
JoinWith(parts, sep) ==
    IF parts = <<>> THEN <<>>
    ELSE IF Len(parts) = 1 THEN parts[1]
    ELSE parts[1] \o sep \o JoinWith(Tail(parts), sep)

\* str(val) of the blank value, which db_to_string has no case for: the
\* repr of the dataclass
py_repr(val) ==
    <<"G", "u", "l", "f", "O", "f", "M", "e", "x", "i", "c", "o", "S",
        "p", "e", "c", "i", "a", "l", "B", "l", "a", "n", "k", "V", "a",
        "l", "u", "e", "(", ")">>

RECURSIVE db_to_string(_)
\* db_to_string(val).value
db_to_string(val) ==
    CASE val.t = "String" -> val.value
      [] val.t = "List" ->
           <<"[">> \o JoinWith([i \in 1 .. Len(val.values) |->
                                  db_to_string(val.values[i])], <<",", " ">>)
                   \o <<"]">>
      [] val.t = "Boolean" ->
           IF val.bool = "true" THEN <<"t", "r", "u", "e">>
           ELSE IF val.bool = "maybe" THEN <<"m", "a", "y", "b", "e">>
           ELSE <<"f", "a", "l", "s", "e">>
      [] val.t = "Number" -> py_str(val)
      [] val.t = "Function" ->
           <<"<", "f", "u", "n", "c", "t", "i", "o", "n", " ", "(">>
               \o JoinWith(val.args, <<",", " ">>) \o <<")", ">">>
      [] val.t = "Object" ->
           <<"<", "o", "b", "j", "e", "c", "t", " ">> \o val.class_name \o <<">">>
      [] val.t = "Undefined" ->
           <<"u", "n", "d", "e", "f", "i", "n", "e", "d">>
      [] val.t = "Keyword" -> val.value
      [] val.t = "Map" ->
           <<"{">> \o JoinWith([i \in 1 .. Len(val.self_dict) |->
                                  db_to_string(val.self_dict[i].k) \o <<":", " ">>
                                      \o db_to_string(val.self_dict[i].v)],
                               <<",", " ">>)
                   \o <<"}">>
      [] val.t = "Blank" -> py_repr(val)

(***************************************************************************)
(* GulfOfMexicoString                                                      *)
(***************************************************************************)
NoStr == <<>>   \* the None of a call that returns nothing or raises

\* __post_init__: the indexer maps -1, 0, .. to (the same real index, "")
String_post_init(cs) ==
    [value   |-> cs,
     indexer |-> [q \in {i * KeyDen : i \in -1 .. Len(cs) - 2} |->
                    [real |-> q \div KeyDen, extra |-> <<>>]],
     length  |-> Len(cs)]

String_create_namespace(S) == [S EXCEPT !.length = Len(S.value)]

String_access_index(S, index) ==
    IF index.t # "Number" THEN Outcome(S, "NonNumberIndex", NoStr)
    ELSE IF ~(-KeyDen <= index.v /\ index.v <= (Len(S.value) - 1) * KeyDen)
    THEN Outcome(S, "OutOfBounds", NoStr)
    ELSE IF index.v \notin DOMAIN S.indexer
    THEN Outcome(S, "NoValueAssigned", NoStr)
    ELSE LET index_data == S.indexer[index.v]
             real_index == index_data.real
         IN  IF ~PyValid(S.value, real_index + 1)
             THEN Outcome(S, "IndexError", NoStr)
             ELSE Outcome(S, "", <<PyAt(S.value, real_index + 1)>> \o index_data.extra)

String_assign_index(S, index, val) ==
    IF index.t # "Number" THEN Outcome(S, "NonNumberIndex", NoStr)
    ELSE
    LET val_str == db_to_string(val) IN
    IF index.v \in DOMAIN S.indexer
    THEN LET indexer_data == S.indexer[index.v]
             index_num == indexer_data.real + 1
             excess_length == Len(indexer_data.extra)
             value == PyUpTo(S.value, index_num) \o val_str
                          \o PyFrom(S.value, index_num + excess_length + 1)
             new_data == IF Len(val_str) > 1
                         THEN [real |-> indexer_data.real,
                               extra |-> PyUpTo(val_str, -1)]      \* val_str[:-1]
                         ELSE [real |-> indexer_data.real, extra |-> <<>>]
             ix == [k \in DOMAIN S.indexer |->
                      IF k = index.v THEN new_data
                      ELSE IF k > index.v
                      THEN [real |-> S.indexer[k].real - excess_length,
                            extra |-> S.indexer[k].extra]
                      ELSE S.indexer[k]]
         IN  Outcome(String_create_namespace(
                        [S EXCEPT !.value = value, !.indexer = ix]),
                     "", NoStr)
    ELSE \* assign in the middle of the array
         IF ~(-KeyDen <= index.v /\ index.v <= (Len(S.value) - 1) * KeyDen)
         THEN Outcome(S, "OutOfBounds", NoStr)
         ELSE
         LET index_num == nearest_int_down(index.v)
             value == PyUpTo(S.value, index_num) \o val_str
                          \o PyFrom(S.value, index_num)
             new_data == IF Len(val_str) > 1
                         THEN [real |-> index_num - 1,
                               extra |-> PyFrom(val_str, 1)]       \* val_str[1:]
                         ELSE [real |-> index_num - 1, extra |-> <<>>]
             ix1 == (index.v :> new_data) @@ S.indexer
             ix2 == [k \in DOMAIN ix1 |->
                       IF k > index.v
                       THEN [real |-> ix1[k].real + Len(val_str),
                             extra |-> ix1[k].extra]
                       ELSE ix1[k]]
         IN  Outcome(String_create_namespace(
                        [S EXCEPT !.value = value, !.indexer = ix2]),
                     "", NoStr)

db_str_push(S, val) ==
    LET val_str == db_to_string(val) IN
    IF DOMAIN S.indexer = {} THEN Outcome(S, "ValueError", NoStr)
    ELSE LET max_user_index == SetMax(DOMAIN S.indexer)
             new_data == IF Len(val_str) > 1
                         THEN [real |-> Len(S.value) - 1,
                               extra |-> PyFrom(val_str, 1)]
                         ELSE [real |-> Len(S.value) - 1, extra |-> <<>>]
         IN  Outcome(String_create_namespace(
                        [S EXCEPT !.indexer = ((max_user_index + KeyDen) :> new_data)
                                                  @@ S.indexer,
                                  !.value = S.value \o val_str]),
                     "", NoStr)

\* neither branch refreshes namespace["length"] or the indexer
db_str_pop(S, index) ==
    IF index.t = "Blank"
    THEN IF S.value = <<>> THEN Outcome(S, "IndexError", NoStr)
         ELSE Outcome([S EXCEPT !.value = PyUpTo(S.value, -1)],
                      "", <<S.value[Len(S.value)]>>)
    ELSE IF index.t # "Number" \/ ~is_int(index.v)
    THEN Outcome(S, "ExpectedInteger", NoStr)
    ELSE IF ~(-KeyDen <= index.v /\ index.v <= (Len(S.value) - 1) * KeyDen)
    THEN Outcome(S, "OutOfBounds", NoStr)
    ELSE LET index_val == py_round(index.v) + 1
         IN  IF index_val >= Len(S.value) THEN Outcome(S, "IndexError", NoStr)
             ELSE Outcome([S EXCEPT !.value = PyUpTo(S.value, index_val)
                                        \o PyFrom(S.value, index_val + 1)],
                          "", <<S.value[index_val + 1]>>)

(***************************************************************************)
(* GulfOfMexicoNumber.  The receiver is an integral number: a Python int   *)
(* or a float with an integral value (mag, with the sign in neg so that    *)
(* the float -0.0 is told from 0.0).                                       *)
(***************************************************************************)
Int_(n) == [t |-> "Number", float |-> FALSE, neg |-> n < 0,
            mag |-> IF n < 0 THEN -n ELSE n]

DigitVal(c) == CHOOSE d \in 0 .. 9 : DigitChars[d + 1] = c

RECURSIVE py_int(_)
\* int(s) of a non-empty string of digits
py_int(cs) ==
    IF Len(cs) = 1 THEN DigitVal(cs[1])
    ELSE 10 * py_int(SubSeq(cs, 1, Len(cs) - 1)) + DigitVal(cs[Len(cs)])

NotDotOrMinus(c) == c \notin {".", "-"}
\* str(self.value).replace(".", "").replace("-", "")
Number_get_self_str(N) == SelectSeq(py_str(N), NotDotOrMinus)

NoDigit == Num(0)   \* the None of a call that returns nothing or raises

Number_access_index(N, index) ==
    LET self_val_str == Number_get_self_str(N) IN
    IF index.t # "Number" THEN Outcome(N, "NonNumberIndex", NoDigit)
    ELSE IF ~is_int(index.v) THEN Outcome(N, "ExpectedInteger", NoDigit)
    ELSE IF ~(-KeyDen <= index.v /\ index.v <= (Len(self_val_str) - 1) * KeyDen)
    THEN Outcome(N, "OutOfBounds", NoDigit)
    ELSE LET p == py_round(index.v) + 1
         IN  IF ~PyValid(self_val_str, p) THEN Outcome(N, "IndexError", NoDigit)
             ELSE Outcome(N, "", Int_(DigitVal(PyAt(self_val_str, p))))

\* a slip: the upper bound of the digit range is not tested
IsDigitValue_NoUpperBound(val) ==
    val.t = "Number" /\ is_int(val.v) /\ 0 <= val.v

\* the value test of assign_index: a Number, integral, in 0 .. 9
IsDigitValue(val) ==
    val.t = "Number" /\ is_int(val.v) /\ 0 <= val.v /\ val.v <= 9 * KeyDen

Number_assign_index(N, index, val) ==
    LET self_val_str == Number_get_self_str(N) IN
    \* sign = self.value / abs(self.value): a float, +1.0 or -1.0
    IF N.mag = 0 THEN Outcome(N, "ZeroDivisionError", NoDigit)
    ELSE IF index.t # "Number" THEN Outcome(N, "NonNumberIndex", NoDigit)
    ELSE IF ~IsDigitValue(val) THEN Outcome(N, "NonIntegerValue", NoDigit)
    ELSE
    LET digit == Digits(py_round(val.v)) IN
    IF is_int(index.v)
    THEN IF ~(-KeyDen <= index.v /\ index.v <= (Len(self_val_str) - 1) * KeyDen)
         THEN Outcome(N, "OutOfBounds", NoDigit)
         ELSE LET index_num == py_round(index.v) + 1
                  digits == PyUpTo(self_val_str, index_num) \o digit
                                \o PyFrom(self_val_str, index_num + 1)
              IN  Outcome([t |-> "Number", float |-> TRUE, neg |-> N.neg,
                           mag |-> py_int(digits)], "", NoDigit)
    ELSE \* assign in the middle of the array
         LET index_num == nearest_int_down(index.v)
             digits == PyUpTo(self_val_str, index_num) \o digit
                           \o PyFrom(self_val_str, index_num)
         IN  Outcome([t |-> "Number", float |-> TRUE, neg |-> N.neg,
                      mag |-> py_int(digits)], "", NoDigit)

(***************************************************************************)
(* Variable and VariableLifetime.  `nth` is a history field, not in the    *)
(* source: the ordinal of the add_lifetime call that made the lifetime.    *)
(***************************************************************************)
\* d: value, lines_left, can_be_reset, can_edit_value, is_temporal, temporal_duration
VariableLifetime(d, confidence, creation_time, nth) ==
    [value |-> d[1], lines_left |-> d[2], confidence |-> confidence,
     can_be_reset |-> d[3], can_edit_value |-> d[4],
     creation_time |-> creation_time, is_temporal |-> d[5],
     temporal_duration |-> d[6], nth |-> nth]

NoValue == 0    \* the None of a call that returns nothing or raises

\* the properties value, can_be_reset, can_edit_value read the head lifetime
Variable_value(V) ==
    IF V.lifetimes # <<>> THEN Outcome(V, "", V.lifetimes[1].value)
    ELSE Outcome(V, "VariableIsUndefined", NoValue)

Variable_can_be_reset(V) ==
    IF V.lifetimes # <<>> THEN Outcome(V, "", V.lifetimes[1].can_be_reset)
    ELSE Outcome(V, "VariableIsUndefined", FALSE)

Variable_can_edit_value(V) ==
    IF V.lifetimes # <<>> THEN Outcome(V, "", V.lifetimes[1].can_edit_value)
    ELSE Outcome(V, "VariableIsUndefined", FALSE)

\* a slip in the comparison: <= for >=
InsertAt_WrongOrder(lifetimes, confidence) ==
    CHOOSE i \in 0 .. Len(lifetimes) :
        /\ i = Len(lifetimes) \/ lifetimes[i + 1].confidence <= confidence
        /\ \A j \in 0 .. i - 1 : lifetimes[j + 1].confidence > confidence

\* a slip in the comparison: > for >=, a tie goes behind the head
InsertAt_AfterTies(lifetimes, confidence) ==
    CHOOSE i \in 0 .. Len(lifetimes) :
        /\ i = Len(lifetimes) \/ lifetimes[i + 1].confidence > confidence
        /\ \A j \in 0 .. i - 1 : lifetimes[j + 1].confidence <= confidence

\* the first i in range(len + 1) with i == len or lifetimes[i].confidence >= confidence
InsertAt(lifetimes, confidence) ==
    CHOOSE i \in 0 .. Len(lifetimes) :
        /\ i = Len(lifetimes) \/ lifetimes[i + 1].confidence >= confidence
        /\ \A j \in 0 .. i - 1 : lifetimes[j + 1].confidence < confidence

\* a slip: the history grows whenever the list was non-empty
Variable_add_lifetime_AlwaysHistory(V, life) ==
    LET i == InsertAt(V.lifetimes, life.confidence)
    IN  [lifetimes |-> SubSeq(V.lifetimes, 1, i) \o <<life>>
                           \o SubSeq(V.lifetimes, i + 1, Len(V.lifetimes)),
         prev_values |-> IF V.lifetimes # <<>>
                         THEN Append(V.prev_values, Variable_value(V).ret)
                         ELSE V.prev_values]

Variable_add_lifetime(V, life) ==
    LET i == InsertAt(V.lifetimes, life.confidence)
    IN  [lifetimes |-> SubSeq(V.lifetimes, 1, i) \o <<life>>
                           \o SubSeq(V.lifetimes, i + 1, Len(V.lifetimes)),
         prev_values |-> IF i = 0 /\ V.lifetimes # <<>>
                         THEN Append(V.prev_values, Variable_value(V).ret)
                         ELSE V.prev_values]

\* a slip in the comparison: > for >=
Outdated_Strict(l, current_time) ==
    \/ l.lines_left = 0
    \/ l.is_temporal /\ current_time - l.creation_time > l.temporal_duration

\* a slip: is_temporal is not consulted
Outdated_NoTemporalFlag(l, current_time) ==
    \/ l.lines_left = 0
    \/ current_time - l.creation_time >= l.temporal_duration

\* the test of clear_outdated_lifetimes for one lifetime
Outdated(l, current_time) ==
    \/ l.lines_left = 0
    \/ l.is_temporal /\ current_time - l.creation_time >= l.temporal_duration

RECURSIVE DelIndeces(_, _)
\* for i in reversed(remove_indeces): del self.lifetimes[i]
DelIndeces(lifetimes, remove_indeces) ==
    IF remove_indeces = {} THEN lifetimes
    ELSE LET i == SetMax(remove_indeces)
         IN  DelIndeces(PyDel(lifetimes, i), remove_indeces \ {i})

Variable_clear_outdated_lifetimes(V, current_time) ==
    LET remove_indeces == {i \in 0 .. Len(V.lifetimes) - 1 :
                              Outdated(V.lifetimes[i + 1], current_time)}
    IN  [V EXCEPT !.lifetimes = DelIndeces(V.lifetimes, remove_indeces)]

(***************************************************************************)
(* db_signal.  Every call makes a Name object obj and a function closed    *)
(* over it: `objs` is the store of these objects (obj.value), `closures`   *)
(* gives for every function made the object it is closed over.  `written`  *)
(* is a history field, not in the source: per function, the argument of    *)
(* its most recent non-blank call (the starting value if there was none).  *)
(***************************************************************************)
NoResult == [t |-> "None", v |-> 0]   \* the None of a call that returns nothing

NoSignals == [objs |-> <<>>, closures |-> <<>>, written |-> <<>>]

\* a slip: obj is one module-level object, shared by every closure
db_signal_SharedObj(S, starting_value) ==
    [S EXCEPT !.objs = <<starting_value>>,
              !.closures = Append(@, 1)]

\* obj = Name("", starting_value); return BuiltinFunction(1, signal_func)
db_signal(S, starting_value) ==
    [S EXCEPT !.objs = Append(@, starting_value),
              !.closures = Append(@, Len(S.objs) + 1)]

\* the function f called with setter_val
signal_func(S, f, setter_val) ==
    LET obj == S.closures[f] IN
    IF setter_val.t = "Blank" THEN Outcome(S, "", S.objs[obj])
    ELSE Outcome([S EXCEPT !.objs[obj] = setter_val], "", NoResult)

(***************************************************************************)
(* The when statement, from the specification of the statement executor    *)
(* (the interpreter that implements it is not part of the source tree).    *)
(* One variable c is watched by `when c == Target`.  `trace` and `regAt`   *)
(* are history fields: the values assigned so far and how many of them     *)
(* were assigned before the watcher was registered.                        *)
(***************************************************************************)
Target == 3

NoWatch == [c |-> 0, registered |-> FALSE, hits |-> 0, trace |-> <<>>, regAt |-> 0]

\* the condition c == Target on the head value of c
WhenCond(c) == c = Target

\* When: register the watcher; run the body once immediately if cond is truthy
WhenRegister(W) ==
    [W EXCEPT !.registered = TRUE,
              !.regAt = Len(W.trace),
              !.hits = IF WhenCond(W.c) THEN @ + 1 ELSE @]

\* a slip: every assignment to a watched variable counts as a change
WhenAssign_EveryWrite(W, v) ==
    [W EXCEPT !.c = v,
              !.trace = Append(@, v),
              !.hits = IF W.registered /\ WhenCond(v) THEN @ + 1 ELSE @]

\* an assignment c = v: when the head value changes (by equality on the
\* payload) the condition is evaluated again and the body run when truthy
WhenAssign(W, v) ==
    [W EXCEPT !.c = v,
              !.trace = Append(@, v),
              !.hits = IF W.registered /\ v # W.c /\ WhenCond(v) THEN @ + 1 ELSE @]

(***************************************************************************)
(* The other values and the conversions db_to_boolean and db_to_number.    *)
(* The value of a Boolean is "true", "false" or "maybe" (Python's True,    *)
(* False, None).  A Map keeps its items in insertion order, as a dict.     *)
(***************************************************************************)
Bool(x) == [t |-> "Boolean", bool |-> x]
Undefined == [t |-> "Undefined", v |-> 0]
Keyword(cs) == [t |-> "Keyword", value |-> cs]
Function(args) == [t |-> "Function", args |-> args]
Object(class_name) == [t |-> "Object", class_name |-> class_name]
ListOf(values) == [t |-> "List", values |-> values]
MapOf(items) == [t |-> "Map", self_dict |-> items]

\* The dict of a Map is keyed by index.value: a Number key is its value
\* (1 and 1.0 are the same key), a String key is its text.  In the Map
\* runs a key is the index as the indexing methods receive it, Num(q) or
\* Str(cs); the conversions only print the keys.
IsMapKey(index) == index.t \in {"String", "Number"}
NoMap == MapOf(<<>>)

\* the positions of the dict that hold the key
Map_positions(M, key) == {i \in 1 .. Len(M.self_dict) : M.self_dict[i].k = key}

\* GulfOfMexicoMap.access_index: self.self_dict[index.value]
Map_access_index(M, index) ==
    IF ~IsMapKey(index) THEN Outcome(M, "BadMapKey", Undefined)
    ELSE IF Map_positions(M, index) = {} THEN Outcome(M, "KeyError", Undefined)
    ELSE LET p == CHOOSE i \in Map_positions(M, index) :
                      \A j \in Map_positions(M, index) : i <= j
         IN  Outcome(M, "", M.self_dict[p].v)

\* a slip: the item is always added, also when the key is already there
Map_assign_index_AlwaysAdds(M, index, val) ==
    IF ~IsMapKey(index) THEN Outcome(M, "BadMapKey", Undefined)
    ELSE Outcome(MapOf(Append(M.self_dict, [k |-> index, v |-> val])), "", Undefined)

\* GulfOfMexicoMap.assign_index: self.self_dict[index.value] = val
Map_assign_index(M, index, val) ==
    IF ~IsMapKey(index) THEN Outcome(M, "BadMapKey", Undefined)
    ELSE IF Map_positions(M, index) = {}
    THEN Outcome(MapOf(Append(M.self_dict, [k |-> index, v |-> val])), "", Undefined)
    ELSE Outcome(MapOf([i \in 1 .. Len(M.self_dict) |->
                           IF M.self_dict[i].k = index
                           THEN [k |-> index, v |-> val] ELSE M.self_dict[i]]),
                 "", Undefined)

\* a float of magnitude mag + frac / FracDen
Float_(neg, mag, frac) ==
    IF frac = 0 THEN [t |-> "Number", float |-> TRUE, neg |-> neg, mag |-> mag]
    ELSE [t |-> "Number", float |-> TRUE, neg |-> neg, mag |-> mag, frac |-> frac]
\* inf, nan, and a float x with 0 < |x| <= FLOAT_TO_INT_PREC
NonFinite(neg, special) ==
    [t |-> "Number", float |-> TRUE, neg |-> neg, mag |-> 0, special |-> special]
Tiny == NonFinite(FALSE, "tiny")

NoConv == Undefined

\* a slip: Python's `not` applied to None as well, which gives True
db_not_TwoValued(x) == Bool(IF x.bool = "true" THEN "false" ELSE "true")

\* db_not: None stays None, otherwise `not x.value`
db_not(x) ==
    IF x.bool = "maybe" THEN Bool("maybe")
    ELSE Bool(IF x.bool = "true" THEN "false" ELSE "true")

\* a slip: the string is not stripped before it is tested
string_to_bool_NoStrip(cs) == IF cs # <<>> THEN "true" ELSE "false"

\* bool(val.value.strip()) or (None if len(val.value) else False)
string_to_bool(cs) ==
    IF \E i \in 1 .. Len(cs) : cs[i] # " " THEN "true"
    ELSE IF Len(cs) > 0 THEN "maybe" ELSE "false"

\* round(mag + frac / FracDen): Python rounds halves to the even neighbour
py_round_frac(mag, frac) ==
    IF 2 * frac < FracDen THEN mag
    ELSE IF 2 * frac > FracDen THEN mag + 1
    ELSE IF mag % 2 = 0 THEN mag ELSE mag + 1

\* bool(round(val.value)) or (None if abs(val.value) > FLOAT_TO_INT_PREC else False)
\* round raises ValueError on nan and OverflowError on inf
number_to_bool(N) ==
    LET q == N.mag * FracDen + Frac(N) IN
    CASE Special(N) = "nan" -> [err |-> "ValueError", b |-> "false"]
      [] Special(N) = "inf" -> [err |-> "OverflowError", b |-> "false"]
      [] Special(N) = "tiny" -> [err |-> "", b |-> "false"]
      [] OTHER -> [err |-> "",
                   b |-> IF py_round_frac(N.mag, Frac(N)) # 0 THEN "true"
                         ELSE IF q # 0 THEN "maybe" ELSE "false"]

db_to_boolean(val) ==
    CASE val.t = "String" -> Outcome(val, "", Bool(string_to_bool(val.value)))
      [] val.t = "Number" ->
           LET r == number_to_bool(val) IN Outcome(val, r.err, Bool(r.b))
      [] val.t = "List" ->
           Outcome(val, "", Bool(IF val.values # <<>> THEN "true" ELSE "false"))
      [] val.t = "Map" ->
           Outcome(val, "", Bool(IF val.self_dict # <<>> THEN "true" ELSE "false"))
      [] val.t = "Boolean" -> Outcome(val, "", Bool(val.bool))
      [] val.t = "Undefined" -> Outcome(val, "", Bool("false"))
      [] val.t \in {"Function", "Object", "Keyword"} -> Outcome(val, "", Bool("maybe"))
      [] OTHER -> Outcome(val, "", Bool("maybe"))   \* return_bool stays None

\* s.strip() for a string whose only whitespace is the space
py_strip(cs) ==
    LET inked == {i \in 1 .. Len(cs) : cs[i] # " "}
    IN  IF inked = {} THEN <<>>
        ELSE SubSeq(cs, CHOOSE i \in inked : \A j \in inked : i <= j, SetMax(inked))

IsDigits(cs) == \A i \in 1 .. Len(cs) : \E d \in 1 .. 10 : DigitChars[d] = cs[i]

RECURSIVE Pow10(_)
Pow10(n) == IF n = 0 THEN 1 ELSE 10 * Pow10(n - 1)

\* a slip: the string is read as int(s) would read it, so that a string
\* with a point is rejected
py_float_DigitsOnly(cs) ==
    LET s == py_strip(cs)
        neg == s # <<>> /\ s[1] = "-"
        body == IF s # <<>> /\ s[1] \in {"-", "+"} THEN Tail(s) ELSE s
    IN  IF body # <<>> /\ IsDigits(body)
        THEN [err |-> "", ret |-> Float_(neg, py_int(body), 0)]
        ELSE [err |-> "ValueError", ret |-> Undefined]

\* float(s): surrounding whitespace and a sign are allowed; then inf,
\* infinity, nan, or decimal digits with at most one point.  Of the
\* exponent forms only 1e-09, the one string with an exponent that the
\* runs produce, is read; a fraction is read exactly when it is a multiple
\* of 1 / FracDen, as every fraction the runs print is.
py_float(cs) ==
    LET s == py_strip(cs)
        signed == s # <<>> /\ s[1] \in {"-", "+"}
        neg == s # <<>> /\ s[1] = "-"
        body == IF signed THEN Tail(s) ELSE s
        dots == {i \in 1 .. Len(body) : body[i] = "."}
        dot == IF dots = {} THEN Len(body) + 1 ELSE SetMax(dots)
        whole == SubSeq(body, 1, dot - 1)
        part == SubSeq(body, dot + 1, Len(body))
    IN  IF body \in {<<"i", "n", "f">>, <<"i", "n", "f", "i", "n", "i", "t", "y">>}
        THEN [err |-> "", ret |-> NonFinite(neg, "inf")]
        ELSE IF body = <<"n", "a", "n">>
        THEN [err |-> "", ret |-> NonFinite(neg, "nan")]
        ELSE IF body = <<"1", "e", "-", "0", "9">>
        THEN [err |-> "", ret |-> NonFinite(neg, "tiny")]
        ELSE IF /\ Cardinality(dots) <= 1
                /\ IsDigits(whole) /\ IsDigits(part)
                /\ Len(whole) + Len(part) > 0
        THEN [err |-> "",
              ret |-> Float_(neg,
                             IF whole = <<>> THEN 0 ELSE py_int(whole),
                             IF part = <<>> THEN 0
                             ELSE (py_int(part) * FracDen) \div Pow10(Len(part)))]
        ELSE [err |-> "ValueError", ret |-> Undefined]

db_to_number(val) ==
    CASE val.t = "Number" -> Outcome(val, "", val)
      [] val.t = "String" ->
           LET r == py_float(val.value) IN Outcome(val, r.err, r.ret)
      [] val.t = "Undefined" -> Outcome(val, "", Int_(0))
      [] val.t = "Boolean" ->
           \* int(val.value is not None and val.value) + (val.value is None) * 0.5
           Outcome(val, "", IF val.bool = "true" THEN Float_(FALSE, 1, 0)
                            ELSE IF val.bool = "maybe" THEN Float_(FALSE, 0, FracDen \div 2)
                            ELSE Float_(FALSE, 0, 0))
      [] val.t = "List" ->
           IF val.values # <<>> THEN Outcome(val, "NonEmptyList", Undefined)
           ELSE Outcome(val, "", Int_(0))
      [] val.t = "Map" ->
           IF val.self_dict # <<>> THEN Outcome(val, "NonEmptyMap", Undefined)
           ELSE Outcome(val, "", Int_(0))
      [] OTHER -> Outcome(val, "CannotTurnType", Undefined)


(***************************************************************************)
(* Initialisation of the built-in module: the statements at the top level  *)
(* of builtin.py from all_function_keywords on, run in file order.  A      *)
(* statement that reads a global name not bound yet raises NameError,      *)
(* which ends the initialisation.  A keyword table is the set of its keys. *)
(***************************************************************************)
Word == <<"f", "u", "n", "c", "t", "i", "o", "n">>
Masks == 0 .. 2 ^ Len(Word) - 1

\* the letters c * i of one pass of the innermost loop, joined: letter k of
\* the word is kept when its loop variable is 1; f is the outermost loop
RECURSIVE Joined(_, _)
Joined(m, k) ==
    IF k > Len(Word) THEN <<>>
    ELSE (IF (m \div 2 ^ (Len(Word) - k)) % 2 = 1 THEN <<Word[k]>> ELSE <<>>)
             \o Joined(m, k + 1)

\* a slip: without the `or "fn"`, so that the empty string is added
all_function_keywords_NoFn(m) == Joined(m, 1)

\* what one pass adds to the set keywords: "".join(...) or "fn"
all_function_keywords(m) ==
    IF Joined(m, 1) = <<>> THEN <<"f", "n">> ELSE Joined(m, 1)

ReservedWords ==
    {<<"c", "l", "a", "s", "s">>,
     <<"c", "l", "a", "s", "s", "N", "a", "m", "e">>,
     <<"a", "f", "t", "e", "r">>, <<"c", "o", "n", "s", "t">>,
     <<"v", "a", "r">>, <<"w", "h", "e", "n">>, <<"i", "f">>,
     <<"a", "s", "y", "n", "c">>, <<"r", "e", "t", "u", "r", "n">>,
     <<"d", "e", "l", "e", "t", "e">>, <<"a", "w", "a", "i", "t">>,
     <<"p", "r", "e", "v", "i", "o", "u", "s">>, <<"n", "e", "x", "t">>,
     <<"r", "e", "v", "e", "r", "s", "e">>,
     <<"e", "x", "p", "o", "r", "t">>, <<"i", "m", "p", "o", "r", "t">>}
SmallNumberWords ==
    {<<"z", "e", "r", "o">>, <<"o", "n", "e">>, <<"t", "w", "o">>,
     <<"t", "h", "r", "e", "e">>, <<"f", "o", "u", "r">>,
     <<"f", "i", "v", "e">>, <<"s", "i", "x">>,
     <<"s", "e", "v", "e", "n">>, <<"e", "i", "g", "h", "t">>,
     <<"n", "i", "n", "e">>, <<"t", "e", "n">>,
     <<"e", "l", "e", "v", "e", "n">>, <<"t", "w", "e", "l", "v", "e">>,
     <<"t", "h", "i", "r", "t", "e", "e", "n">>,
     <<"f", "o", "u", "r", "t", "e", "e", "n">>,
     <<"f", "i", "f", "t", "e", "e", "n">>,
     <<"s", "i", "x", "t", "e", "e", "n">>,
     <<"s", "e", "v", "e", "n", "t", "e", "e", "n">>,
     <<"e", "i", "g", "h", "t", "e", "e", "n">>,
     <<"n", "i", "n", "t", "e", "e", "n">>}
TensNumberWords ==
    {<<"t", "w", "e", "n", "t", "y">>, <<"t", "h", "i", "r", "t", "y">>,
     <<"f", "o", "r", "t", "y">>, <<"f", "i", "f", "t", "y">>,
     <<"s", "i", "x", "t", "y">>, <<"s", "e", "v", "e", "n", "t", "y">>,
     <<"e", "i", "g", "h", "t", "y">>, <<"n", "i", "n", "e", "t", "y">>}
BuiltinFunctionNames ==
    {<<"n", "e", "w">>, <<"c", "u", "r", "r", "e", "n", "t">>,
     <<"M", "a", "p">>, <<"B", "o", "o", "l", "e", "a", "n">>,
     <<"S", "t", "r", "i", "n", "g">>, <<"p", "r", "i", "n", "t">>,
     <<"e", "x", "i", "t">>, <<"N", "u", "m", "b", "e", "r">>,
     <<"u", "s", "e">>, <<"s", "l", "e", "e", "p">>,
     <<"r", "e", "a", "d">>, <<"w", "r", "i", "t", "e">>,
     <<"r", "e", "g", "e", "x", "_", "m", "a", "t", "c", "h">>,
     <<"r", "e", "g", "e", "x", "_", "f", "i", "n", "d", "a", "l", "l">>,
     <<"r", "e", "g", "e", "x", "_", "r", "e", "p", "l", "a", "c", "e">>}
BuiltinValueNames ==
    {<<"t", "r", "u", "e">>, <<"m", "a", "y", "b", "e">>,
     <<"f", "a", "l", "s", "e">>,
     <<"u", "n", "d", "e", "f", "i", "n", "e", "d">>, <<>>}
\* some of the names of dir(math) that do not start with "__"
MathNames ==
    {<<"p", "i">>, <<"e">>, <<"t", "a", "u">>, <<"i", "n", "f">>,
     <<"n", "a", "n">>, <<"s", "q", "r", "t">>, <<"l", "o", "g">>,
     <<"s", "i", "n">>, <<"c", "o", "s">>, <<"f", "l", "o", "o", "r">>,
     <<"c", "e", "i", "l">>}

Stmt(line, op, binds, reads) ==
    [line |-> line, op |-> op, binds |-> binds, reads |-> reads]
\* the line of each statement, whether it is a def, an assignment or an
\* update (|=), the name it binds and the global names it reads when it runs
Statements ==
    <<Stmt(536, "def", "all_function_keywords", {}),
      Stmt(564, "assign", "FUNCTION_KEYWORDS", {"all_function_keywords"}),
      Stmt(565, "assign", "KEYWORDS",
           {"FUNCTION_KEYWORDS", "GulfOfMexicoKeyword", "Name"}),
      Stmt(588, "assign", "NUMBER_NAME_KEYWORDS",
           {"GulfOfMexicoNumber", "Name", "__number_function_maker"}),
      Stmt(622, "update", "KEYWORDS",
           {"BUILTIN_FUNCTION_KEYWORDS", "BUILTIN_VALUE_KEYWORDS", "KEYWORDS",
            "MATH_FUNCTION_KEYWORDS", "NUMBER_NAME_KEYWORDS"}),
      Stmt(630, "def", "db_identity", {}),
      Stmt(634, "def", "db_map", {}),
      Stmt(638, "def", "db_to_boolean", {}),
      Stmt(662, "def", "db_to_string", {}),
      Stmt(690, "def", "db_print", {}),
      Stmt(700, "def", "db_to_number", {}),
      Stmt(728, "def", "db_signal", {}),
      Stmt(740, "def", "db_sleep", {}),
      Stmt(746, "def", "db_read", {}),
      Stmt(754, "def", "db_regex_match", {}),
      Stmt(771, "def", "db_regex_findall", {}),
      Stmt(789, "def", "db_regex_replace", {}),
      Stmt(807, "def", "db_write", {}),
      Stmt(815, "def", "db_exit", {}),
      Stmt(819, "def", "__math_function_decorator", {}),
      Stmt(832, "def", "__number_function_maker", {}),
      Stmt(846, "assign", "MATH_FUNCTION_KEYWORDS",
           {"BuiltinFunction", "GulfOfMexicoNumber", "Name",
            "__math_function_decorator", "math"}),
      Stmt(888, "assign", "BUILTIN_FUNCTION_KEYWORDS",
           {"BuiltinFunction", "Name", "db_exit", "db_identity", "db_map",
            "db_print", "db_read", "db_regex_findall", "db_regex_match",
            "db_regex_replace", "db_signal", "db_sleep", "db_to_boolean",
            "db_to_number", "db_to_string", "db_write"}),
      Stmt(905, "assign", "BUILTIN_VALUE_KEYWORDS",
           {"GulfOfMexicoBoolean", "GulfOfMexicoSpecialBlankValue",
            "GulfOfMexicoUndefined", "Name"}),
      Stmt(912, "assign", "NUMBER_NAME_KEYWORDS",
           {"GulfOfMexicoNumber", "Name", "__number_function_maker"}),
      Stmt(946, "update", "KEYWORDS",
           {"BUILTIN_FUNCTION_KEYWORDS", "BUILTIN_VALUE_KEYWORDS", "KEYWORDS",
            "MATH_FUNCTION_KEYWORDS", "NUMBER_NAME_KEYWORDS"})>>

\* the names bound by the imports and class definitions above line 536
BoundAbove ==
    {"BuiltinFunction", "GulfOfMexicoBoolean", "GulfOfMexicoKeyword",
     "GulfOfMexicoNumber", "GulfOfMexicoSpecialBlankValue",
     "GulfOfMexicoUndefined", "Name", "math"}

NoTables ==
    [FUNCTION_KEYWORDS |-> {}, KEYWORDS |-> {}, NUMBER_NAME_KEYWORDS |-> {},
     MATH_FUNCTION_KEYWORDS |-> {}, BUILTIN_FUNCTION_KEYWORDS |-> {},
     BUILTIN_VALUE_KEYWORDS |-> {}]
NoModule ==
    [pc |-> 0, defined |-> {}, tables |-> NoTables, keywords |-> {}, mask |-> 0,
     err |-> ""]

\* the keys of the table that the statement s assigns
TableKeys(M, s) ==
    CASE s.binds = "FUNCTION_KEYWORDS" -> M.keywords
      [] s.binds = "KEYWORDS" /\ s.op = "assign" ->
           ReservedWords \cup M.tables.FUNCTION_KEYWORDS
      [] s.binds = "KEYWORDS" /\ s.op = "update" ->
           M.tables.KEYWORDS \cup M.tables.BUILTIN_FUNCTION_KEYWORDS
               \cup M.tables.BUILTIN_VALUE_KEYWORDS
               \cup M.tables.MATH_FUNCTION_KEYWORDS
               \cup M.tables.NUMBER_NAME_KEYWORDS
      [] s.binds = "NUMBER_NAME_KEYWORDS" -> SmallNumberWords \cup TensNumberWords
      [] s.binds = "MATH_FUNCTION_KEYWORDS" -> MathNames
      [] s.binds = "BUILTIN_FUNCTION_KEYWORDS" -> BuiltinFunctionNames
      [] s.binds = "BUILTIN_VALUE_KEYWORDS" -> BuiltinValueNames

\* the module after its statement at pc has run
Execute(M) ==
    LET s == Statements[M.pc] IN
    IF ~(s.reads \subseteq M.defined) THEN [M EXCEPT !.err = "NameError"]
    ELSE [M EXCEPT !.pc = M.pc + 1,
                   !.defined = M.defined \cup {s.binds},
                   !.tables = IF s.binds \in DOMAIN M.tables
                              THEN [M.tables EXCEPT ![s.binds] = TableKeys(M, s)]
                              ELSE M.tables]

(***************************************************************************)
(* Inputs of the List / String runs.                                       *)
(***************************************************************************)
Letters == <<"a", "b", "c", "d", "e", "f">>
InitLists == {[i \in 1 .. n |-> i] : n \in 0 .. MaxInit}
InitStrings == {SubSeq(Letters, 1, n) : n \in 0 .. MaxInit}
ListVals == {8, 9}
StrVals == {Str(<<"x">>), Str(<<"y", "z">>)}

\* user indices a call may pass: -2, -1, 0, .. and fractions between them
IntKeys == {i * KeyDen : i \in -2 .. MaxInit + 1}
FracKeys == {i * KeyDen + f : i \in -1 .. 1, f \in {KeyDen \div 2, (3 * KeyDen) \div 4}}
Indexes == {Num(q) : q \in IntKeys \cup FracKeys} \cup {NonNumber}
PopIndexes == {Num(q) : q \in IntKeys} \cup {Num(KeyDen \div 2), Blank, NonNumber}

NoList == List_post_init(<<>>)
NoString == String_post_init(<<>>)
NoNumber == Int_(1)
NoVariable == [lifetimes |-> <<>>, prev_values |-> <<>>]

Call(op, index, val, out, pre) ==
    [op |-> op, index |-> index, val |-> val, err |-> out.err, ret |-> out.ret,
     pre |-> pre]

InitList ==
    /\ recv = "List"
    /\ mod = NoModule
    /\ map = NoMap
    /\ \E vs \in InitLists : lst = List_post_init(vs)
    /\ str = NoString
    /\ num = NoNumber /\ var = NoVariable /\ now = 0
    /\ signals = NoSignals /\ watch = NoWatch /\ conv = NoConv
    /\ nops = 0
    /\ last = [op |-> "new", index |-> Blank, val |-> NoElem, err |-> "",
               ret |-> NoElem, pre |-> NoList]

InitString ==
    /\ recv = "String"
    /\ mod = NoModule
    /\ map = NoMap
    /\ \E cs \in InitStrings : str = String_post_init(cs)
    /\ lst = NoList
    /\ num = NoNumber /\ var = NoVariable /\ now = 0
    /\ signals = NoSignals /\ watch = NoWatch /\ conv = NoConv
    /\ nops = 0
    /\ last = [op |-> "new", index |-> Blank, val |-> Str(<<>>), err |-> "",
               ret |-> NoStr, pre |-> NoString]

InitSeq == InitList \/ InitString

ListAssign ==
    /\ recv = "List" /\ nops < MaxOps
    /\ \E index \in Indexes, val \in ListVals :
        LET out == List_assign_index(lst, index, val)
        IN  /\ lst' = out.st
            /\ last' = Call("assign_index", index, val, out, lst)
    /\ nops' = nops + 1
    /\ UNCHANGED <<recv, str, num, var, now, signals, watch, conv, map, mod>>

ListPush ==
    /\ recv = "List" /\ nops < MaxOps
    /\ \E val \in ListVals :
        LET out == db_list_push(lst, val)
        IN  /\ lst' = out.st
            /\ last' = Call("push", Blank, val, out, lst)
    /\ nops' = nops + 1
    /\ UNCHANGED <<recv, str, num, var, now, signals, watch, conv, map, mod>>

ListPop ==
    /\ recv = "List" /\ nops < MaxOps
    /\ \E index \in PopIndexes :
        LET out == db_list_pop(lst, index)
        IN  /\ lst' = out.st
            /\ last' = Call("pop", index, NoElem, out, lst)
    /\ nops' = nops + 1
    /\ UNCHANGED <<recv, str, num, var, now, signals, watch, conv, map, mod>>

StringAssign ==
    /\ recv = "String" /\ nops < MaxOps
    /\ \E index \in Indexes, val \in StrVals :
        LET out == String_assign_index(str, index, val)
        IN  /\ str' = out.st
            /\ last' = Call("assign_index", index, val, out, str)
    /\ nops' = nops + 1
    /\ UNCHANGED <<recv, lst, num, var, now, signals, watch, conv, map, mod>>

StringPush ==
    /\ recv = "String" /\ nops < MaxOps
    /\ \E val \in StrVals :
        LET out == db_str_push(str, val)
        IN  /\ str' = out.st
            /\ last' = Call("push", Blank, val, out, str)
    /\ nops' = nops + 1
    /\ UNCHANGED <<recv, lst, num, var, now, signals, watch, conv, map, mod>>

StringPop ==
    /\ recv = "String" /\ nops < MaxOps
    /\ \E index \in PopIndexes :
        LET out == db_str_pop(str, index)
        IN  /\ str' = out.st
            /\ last' = Call("pop", index, Str(<<>>), out, str)
    /\ nops' = nops + 1
    /\ UNCHANGED <<recv, lst, num, var, now, signals, watch, conv, map, mod>>

NextSeq ==
    \/ ListAssign \/ ListPush \/ ListPop
    \/ StringAssign \/ StringPush \/ StringPop

SpecSeq == InitSeq /\ [][NextSeq]_vars

(***************************************************************************)
(* Inputs and actions of the Number runs.                                  *)
(***************************************************************************)
InitNumbers == {Int_(n) : n \in {0, 7, -5, 10, 123, -123, 909}}
NumIndexes == {Num(i * KeyDen) : i \in -2 .. 3} \cup {Num(KeyDen \div 2), NonNumber}
NumVals == {Num(0), Num(5 * KeyDen), Num(9 * KeyDen), Num(10 * KeyDen),
            Num(KeyDen \div 2), NonNumber}

InitNum ==
    /\ recv = "Number"
    /\ mod = NoModule
    /\ map = NoMap
    /\ num \in InitNumbers
    /\ lst = NoList /\ str = NoString /\ var = NoVariable /\ now = 0
    /\ signals = NoSignals /\ watch = NoWatch /\ conv = NoConv
    /\ nops = 0
    /\ last = [op |-> "new", index |-> Blank, val |-> NoDigit, err |-> "",
               ret |-> NoDigit, pre |-> NoNumber]

NumAssign ==
    /\ recv = "Number" /\ nops < MaxOps
    /\ \E index \in NumIndexes, val \in NumVals :
        LET out == Number_assign_index(num, index, val)
        IN  /\ num' = out.st
            /\ last' = Call("assign_index", index, val, out, num)
    /\ nops' = nops + 1
    /\ UNCHANGED <<recv, lst, str, var, now, signals, watch, conv, map, mod>>

NextNum == NumAssign

SpecNum == InitNum /\ [][NextNum]_vars

(***************************************************************************)
(* Inputs and actions of the Variable runs.                                *)
(***************************************************************************)
Confidences == -1 .. 1
\* value, lines_left, can_be_reset, can_edit_value, is_temporal, temporal_duration
Declarations == {<<1, 0, FALSE, FALSE, FALSE, 0>>,
                 <<2, 2, TRUE, TRUE, FALSE, 0>>,
                 <<3, 2, TRUE, FALSE, TRUE, 1>>}

InitVar ==
    /\ recv = "Variable"
    /\ mod = NoModule
    /\ map = NoMap
    /\ var = NoVariable
    /\ now = 0
    /\ lst = NoList /\ str = NoString /\ num = NoNumber
    /\ signals = NoSignals /\ watch = NoWatch /\ conv = NoConv
    /\ nops = 0
    /\ last = [op |-> "new", index |-> Blank, val |-> NoValue, err |-> "",
               ret |-> NoValue, pre |-> NoVariable, time |-> 0]

VarCall(op, life, pre) ==
    [op |-> op, index |-> Blank, val |-> life, err |-> "", ret |-> NoValue,
     pre |-> pre, time |-> now]

VarAdd ==
    /\ recv = "Variable" /\ nops < MaxAdds
    /\ \E confidence \in Confidences, d \in Declarations :
        LET life == VariableLifetime(d, confidence, now, nops + 1)
        IN  /\ var' = Variable_add_lifetime(var, life)
            /\ last' = VarCall("add_lifetime", life, var)
    /\ nops' = nops + 1
    /\ UNCHANGED <<recv, lst, str, num, now, signals, watch, conv, map, mod>>

VarClear ==
    /\ recv = "Variable"
    /\ var' = Variable_clear_outdated_lifetimes(var, now)
    /\ last' = VarCall("clear_outdated", NoValue, var)
    /\ UNCHANGED <<recv, lst, str, num, now, nops, signals, watch, conv, map, mod>>

\* a statement was executed: every lifetime loses a line, then the sweep runs
DecrementLines(V) ==
    [V EXCEPT !.lifetimes = [i \in 1 .. Len(V.lifetimes) |->
        [V.lifetimes[i] EXCEPT !.lines_left = @ - 1]]]

VarLine ==
    /\ recv = "Variable" /\ nops < MaxAdds
    /\ var.lifetimes # <<>>
    /\ LET pre == DecrementLines(var)
       IN  /\ var' = Variable_clear_outdated_lifetimes(pre, now)
           /\ last' = VarCall("clear_outdated", NoValue, pre)
    /\ nops' = nops + 1
    /\ UNCHANGED <<recv, lst, str, num, now, signals, watch, conv, map, mod>>

\* time passes
Tick ==
    /\ recv = "Variable" /\ now < MaxTime
    /\ now' = now + 1
    /\ UNCHANGED <<recv, lst, str, num, var, nops, last, signals, watch, conv, map, mod>>

NextVar == VarAdd \/ VarClear \/ VarLine \/ Tick

SpecVar == InitVar /\ [][NextVar]_vars

(***************************************************************************)
(* Inputs and actions of the db_signal runs.                               *)
(***************************************************************************)
SignalVals == {Num(0), Num(KeyDen), NonNumber}

InitSignal ==
    /\ recv = "Signal"
    /\ mod = NoModule
    /\ map = NoMap
    /\ signals = NoSignals
    /\ lst = NoList /\ str = NoString /\ num = NoNumber /\ var = NoVariable
    /\ now = 0 /\ watch = NoWatch /\ conv = NoConv
    /\ nops = 0
    /\ last = [op |-> "new", f |-> 0, val |-> Blank, err |-> "",
               ret |-> NoResult, pre |-> NoSignals]

\* use(starting_value)
SignalUse ==
    /\ recv = "Signal" /\ Len(signals.closures) < MaxSignals
    /\ \E starting_value \in SignalVals \cup {Blank} :
        LET S == db_signal(signals, starting_value)
        IN  /\ signals' = [S EXCEPT !.written = Append(@, starting_value)]
            /\ last' = [op |-> "use", f |-> Len(S.closures), val |-> starting_value,
                        err |-> "", ret |-> NoResult, pre |-> signals]
    /\ UNCHANGED <<recv, lst, str, num, var, now, nops, watch, conv, map, mod>>

\* a call of one of the setter-getters
SignalCall ==
    /\ recv = "Signal" /\ nops < MaxCalls
    /\ \E f \in 1 .. Len(signals.closures), setter_val \in SignalVals \cup {Blank} :
        LET out == signal_func(signals, f, setter_val)
        IN  /\ signals' = IF setter_val.t = "Blank" THEN out.st
                          ELSE [out.st EXCEPT !.written[f] = setter_val]
            /\ last' = [op |-> "call", f |-> f, val |-> setter_val,
                        err |-> out.err, ret |-> out.ret, pre |-> signals]
    /\ nops' = nops + 1
    /\ UNCHANGED <<recv, lst, str, num, var, now, watch, conv, map, mod>>

NextSignal == SignalUse \/ SignalCall

SpecSignal == InitSignal /\ [][NextSignal]_vars

(***************************************************************************)
(* Inputs and actions of the when runs.                                    *)
(***************************************************************************)
WatchVals == {0, 1, Target, 4}

InitWhen ==
    /\ recv = "When"
    /\ mod = NoModule
    /\ map = NoMap
    /\ watch = NoWatch
    /\ lst = NoList /\ str = NoString /\ num = NoNumber /\ var = NoVariable
    /\ now = 0 /\ signals = NoSignals /\ conv = NoConv
    /\ nops = 0
    /\ last = [op |-> "new", index |-> Blank, val |-> NoValue, err |-> "",
               ret |-> NoValue, pre |-> NoWatch]

RegisterWhen ==
    /\ recv = "When" /\ ~watch.registered
    /\ watch' = WhenRegister(watch)
    /\ UNCHANGED <<recv, lst, str, num, var, now, nops, last, signals, conv, map, mod>>

AssignWatched ==
    /\ recv = "When" /\ Len(watch.trace) < MaxAssigns
    /\ \E v \in WatchVals : watch' = WhenAssign(watch, v)
    /\ UNCHANGED <<recv, lst, str, num, var, now, nops, last, signals, conv, map, mod>>

NextWhen == RegisterWhen \/ AssignWatched

SpecWhen == InitWhen /\ [][NextWhen]_vars

(***************************************************************************)
(* Inputs and actions of the conversion runs: a run starts from a literal  *)
(* value and applies conversions, each to the result of the one before.    *)
(***************************************************************************)
ConvNumbers ==
    {Int_(0), Int_(1), Int_(-2), Int_(120), Float_(FALSE, 0, 0), Float_(TRUE, 3, 0),
     Float_(FALSE, 0, FracDen \div 2), Float_(FALSE, 0, 1), Float_(TRUE, 0, FracDen - 1),
     Float_(FALSE, 1, FracDen \div 2), Float_(FALSE, 2, FracDen \div 2), Tiny}
ConvStrings ==
    {<<>>, <<" ">>, <<" ", " ">>, <<"a">>, <<" ", "a">>, <<"1", "2">>, <<"-", "5">>,
     <<" ", "7", " ">>, <<"1", ".", "5">>, <<".", "5">>, <<"2", ".">>, <<".">>,
     <<"i", "n", "f">>, <<"-", "i", "n", "f">>, <<"n", "a", "n">>}
ConvLists == {<<>>, <<Int_(1)>>, <<Str(<<"a">>), Bool("maybe")>>}
ConvMaps == {<<>>, <<[k |-> Str(<<"a">>), v |-> Int_(1)]>>,
             <<[k |-> Int_(1), v |-> Str(<<>>)], [k |-> Str(<<"b">>), v |-> Undefined]>>}
ConvVals ==
    ConvNumbers \cup {Str(cs) : cs \in ConvStrings}
        \cup {ListOf(vs) : vs \in ConvLists} \cup {MapOf(items) : items \in ConvMaps}
        \cup {Bool("true"), Bool("false"), Bool("maybe"), Undefined, Blank}
        \cup {Function(<<>>), Function(<< <<"x">>, <<"y">> >>), Object(<<"C">>),
              Keyword(<<"i", "f">>)}

ConvCall(op, out) == [op |-> op, val |-> conv, err |-> out.err, ret |-> out.ret]

InitConv ==
    /\ recv = "Conv"
    /\ mod = NoModule
    /\ map = NoMap
    /\ conv \in ConvVals
    /\ lst = NoList /\ str = NoString /\ num = NoNumber /\ var = NoVariable
    /\ now = 0 /\ signals = NoSignals /\ watch = NoWatch
    /\ nops = 0
    /\ last = [op |-> "new", val |-> Undefined, err |-> "", ret |-> Undefined]

\* the value of the run becomes the result, or stays when the call raises
Converted(out) == IF out.err = "" THEN out.ret ELSE conv

ConvToBoolean ==
    /\ recv = "Conv" /\ nops < MaxConvs
    /\ LET out == db_to_boolean(conv)
       IN  conv' = Converted(out) /\ last' = ConvCall("to_boolean", out)
    /\ nops' = nops + 1
    /\ UNCHANGED <<recv, lst, str, num, var, now, signals, watch, map, mod>>

ConvToNumber ==
    /\ recv = "Conv" /\ nops < MaxConvs
    /\ LET out == db_to_number(conv)
       IN  conv' = Converted(out) /\ last' = ConvCall("to_number", out)
    /\ nops' = nops + 1
    /\ UNCHANGED <<recv, lst, str, num, var, now, signals, watch, map, mod>>

ConvToString ==
    /\ recv = "Conv" /\ nops < MaxConvs
    /\ LET out == Outcome(conv, "", Str(db_to_string(conv)))
       IN  conv' = Converted(out) /\ last' = ConvCall("to_string", out)
    /\ nops' = nops + 1
    /\ UNCHANGED <<recv, lst, str, num, var, now, signals, watch, map, mod>>

\* db_to_string(db_to_number(db_to_string(val))): the call that raises ends it
RoundTrip(val) ==
    LET n == db_to_number(Str(db_to_string(val)))
    IN  IF n.err # "" THEN Outcome(val, n.err, Undefined)
        ELSE Outcome(val, "", Str(db_to_string(n.ret)))

ConvRoundTrip ==
    /\ recv = "Conv" /\ nops < MaxConvs
    /\ LET out == RoundTrip(conv)
       IN  conv' = Converted(out) /\ last' = ConvCall("round_trip", out)
    /\ nops' = nops + 1
    /\ UNCHANGED <<recv, lst, str, num, var, now, signals, watch, map, mod>>

\* db_not is applied to a Boolean (its parameter is a GulfOfMexicoBoolean)
ConvNot ==
    /\ recv = "Conv" /\ nops < MaxConvs
    /\ conv.t = "Boolean"
    /\ LET out == Outcome(conv, "", db_not(conv))
       IN  conv' = Converted(out) /\ last' = ConvCall("not", out)
    /\ nops' = nops + 1
    /\ UNCHANGED <<recv, lst, str, num, var, now, signals, watch, map, mod>>

NextConv == ConvToBoolean \/ ConvToNumber \/ ConvToString \/ ConvNot \/ ConvRoundTrip

SpecConv == InitConv /\ [][NextConv]_vars

(***************************************************************************)
(* Inputs and actions of the Map runs.                                     *)
(***************************************************************************)
MapKeys == {Num(0), Num(KeyDen), Num(KeyDen + 1), Str(<<>>), Str(<<"a">>), Str(<<"1">>)}
MapNonKeys == {Blank, Undefined, Bool("true"), ListOf(<<>>), MapOf(<<>>)}
MapIndexes == MapKeys \cup MapNonKeys
MapVals == {Int_(1), Int_(2), Str(<<"a">>), Undefined}
InitMaps ==
    {<<>>, <<[k |-> Str(<<"a">>), v |-> Int_(1)]>>,
     <<[k |-> Num(KeyDen), v |-> Str(<<"a">>)], [k |-> Str(<<"1">>), v |-> Int_(2)]>>}

InitMap ==
    /\ recv = "Map"
    /\ mod = NoModule
    /\ \E items \in InitMaps : map = MapOf(items)
    /\ lst = NoList /\ str = NoString /\ num = NoNumber /\ var = NoVariable
    /\ now = 0 /\ signals = NoSignals /\ watch = NoWatch /\ conv = NoConv
    /\ nops = 0
    /\ last = [op |-> "new", index |-> Blank, val |-> Undefined, err |-> "",
               ret |-> Undefined, pre |-> NoMap]

MapAssign ==
    /\ recv = "Map" /\ nops < MaxOps
    /\ \E index \in MapIndexes, val \in MapVals :
         LET out == Map_assign_index(map, index, val)
         IN  map' = out.st /\ last' = Call("assign", index, val, out, map)
    /\ nops' = nops + 1
    /\ UNCHANGED <<recv, lst, str, num, var, now, signals, watch, conv, mod>>

NextMap == MapAssign

SpecMap == InitMap /\ [][NextMap]_vars

(***************************************************************************)
(* Actions of the initialisation of the built-in module.                   *)
(***************************************************************************)
InitModule ==
    /\ recv = "Module"
    /\ mod = [NoModule EXCEPT !.pc = 1, !.defined = BoundAbove]
    /\ lst = NoList /\ str = NoString /\ num = NoNumber /\ var = NoVariable
    /\ now = 0 /\ signals = NoSignals /\ watch = NoWatch /\ conv = NoConv
    /\ map = NoMap
    /\ nops = 0
    /\ last = [op |-> "new", line |-> 0]

\* the statement at pc is the call of all_function_keywords and its loops
\* have passes left
InLoops(M) ==
    /\ Statements[M.pc].binds = "FUNCTION_KEYWORDS"
    /\ Statements[M.pc].reads \subseteq M.defined
    /\ M.mask \in Masks

\* one pass of the innermost loop of all_function_keywords
AddFunctionKeyword ==
    /\ recv = "Module" /\ mod.err = "" /\ mod.pc \in DOMAIN Statements
    /\ InLoops(mod)
    /\ mod' = [mod EXCEPT !.keywords = @ \cup {all_function_keywords(mod.mask)},
                          !.mask = @ + 1]
    /\ last' = [op |-> "add", line |-> Statements[mod.pc].line]
    /\ UNCHANGED <<recv, lst, str, num, var, now, nops, signals, watch, conv, map>>

\* the statement at pc runs to its end
ExecuteStatement ==
    /\ recv = "Module" /\ mod.err = "" /\ mod.pc \in DOMAIN Statements
    /\ ~InLoops(mod)
    /\ mod' = Execute(mod)
    /\ last' = [op |-> "execute", line |-> Statements[mod.pc].line]
    /\ UNCHANGED <<recv, lst, str, num, var, now, nops, signals, watch, conv, map>>

NextModule == AddFunctionKeyword \/ ExecuteStatement

SpecModule == InitModule /\ [][NextModule]_vars

(***************************************************************************)
(* Claims about List and String (SpecSeq).                                 *)
(***************************************************************************)
\* what index_get returns on the receiver R of the run's kind
AccessIndex(R, q) ==
    IF recv = "List" THEN List_access_index(R, Num(q))
    ELSE String_access_index(R, Num(q))
Receiver == IF recv = "List" THEN lst ELSE str
SameAnswer(a, b) == a.err = b.err /\ a.ret = b.ret

\* C1: on a freshly constructed List e1..en (n >= 1), index_get(i) returns
\* e(i+2) for every integer i in -1..n-2: -1 is the first element, 0 the
\* second, and so on.
C1_FreshListFirstAtMinusOne ==
    (recv = "List" /\ nops = 0) =>
        \A i \in -1 .. Len(lst.values) - 2 :
            LET out == List_access_index(lst, Num(i * KeyDen))
            IN  out.err = "" /\ out.ret = lst.values[i + 2]

\* C2: after index_set on a List with a fractional key k that is not yet a
\* user index, index_get(k) returns the inserted value and every previously
\* assigned user index still returns the element it returned before.
C2_FractionalInsertReadBack ==
    (/\ recv = "List" /\ last.op = "assign_index" /\ last.err = ""
     /\ ~is_int(last.index.v)
     /\ last.index.v \notin DOMAIN last.pre.indexer) =>
        /\ SameAnswer(List_access_index(lst, last.index),
                      Outcome(lst, "", last.val))
        /\ \A k \in DOMAIN last.pre.indexer :
              List_access_index(last.pre, Num(k)).err = "" =>
                  SameAnswer(List_access_index(lst, Num(k)),
                             List_access_index(last.pre, Num(k)))

\* C3: index_set(k, v) on a List or String where k is already a user index
\* replaces in place: afterwards index_get(k) returns v (its string form for
\* a String) and every other assigned user index returns what it returned
\* before.
C3_ReplaceInPlace ==
    (/\ recv \in {"List", "String"} /\ last.op = "assign_index" /\ last.err = ""
     /\ last.index.v \in DOMAIN last.pre.indexer) =>
        /\ SameAnswer(AccessIndex(Receiver, last.index.v),
                      Outcome(Receiver, "",
                              IF recv = "List" THEN last.val
                              ELSE db_to_string(last.val)))
        /\ \A k \in DOMAIN last.pre.indexer \ {last.index.v} :
              AccessIndex(last.pre, k).err = "" =>
                  SameAnswer(AccessIndex(Receiver, k), AccessIndex(last.pre, k))

\* C4: after any sequence of push, pop and index_set on a List or a String,
\* every user index of the indexer maps to a position that exists in the
\* underlying sequence (the position index_get reads for it).
C4_IndexerPositionsExist ==
    /\ recv = "List" =>
          \A k \in DOMAIN lst.indexer : PyValid(lst.values, lst.indexer[k])
    /\ recv = "String" =>
          \A k \in DOMAIN str.indexer : PyValid(str.value, str.indexer[k].real + 1)

(***************************************************************************)
(* Claims about Variable (SpecVar).                                        *)
(***************************************************************************)
Confs(V) == {V.lifetimes[i].confidence : i \in 1 .. Len(V.lifetimes)}
Nths(V) == {V.lifetimes[i].nth : i \in 1 .. Len(V.lifetimes)}

\* C5: after any sequence of add_lifetime and clear_outdated calls the
\* lifetimes are in non-decreasing confidence order, so the head's confidence
\* is <= that of every other lifetime present.
C5_LifetimesSorted ==
    /\ \A i \in 1 .. Len(var.lifetimes) - 1 :
          var.lifetimes[i].confidence <= var.lifetimes[i + 1].confidence
    /\ \A c \in Confs(var) : var.lifetimes[1].confidence <= c

C5_Witness ==
    /\ last.op = "clear_outdated"
    /\ Len(var.lifetimes) = 2 /\ Len(last.pre.lifetimes) = 3
    /\ var.lifetimes[1].confidence < var.lifetimes[2].confidence
    /\ var.lifetimes[1].nth > var.lifetimes[2].nth

\* C6: reading a Variable returns the value of the most recently added
\* lifetime among its lifetimes of minimal confidence; a lifetime added with
\* the confidence of the current head becomes the new head.
C6_ReadsNewestOfLowestConfidence ==
    /\ var.lifetimes # <<>> =>
          \E i \in 1 .. Len(var.lifetimes) :
              /\ \A c \in Confs(var) : var.lifetimes[i].confidence <= c
              /\ \A j \in 1 .. Len(var.lifetimes) :
                    var.lifetimes[j].confidence = var.lifetimes[i].confidence
                        => var.lifetimes[j].nth <= var.lifetimes[i].nth
              /\ SameAnswer(Variable_value(var),
                            Outcome(var, "", var.lifetimes[i].value))
    /\ (/\ last.op = "add_lifetime" /\ last.pre.lifetimes # <<>>
        /\ last.val.confidence = last.pre.lifetimes[1].confidence) =>
          var.lifetimes[1] = last.val

C6_Witness ==
    /\ last.op = "add_lifetime" /\ Len(var.lifetimes) = 3
    /\ last.val.confidence = last.pre.lifetimes[1].confidence
    /\ last.val.value # last.pre.lifetimes[1].value
    /\ Variable_value(var).ret = last.val.value
    /\ var.lifetimes[3].confidence > last.val.confidence
    /\ var.lifetimes[3].nth < var.lifetimes[2].nth

\* C7: a temporal lifetime created at time t with duration d is removed by
\* the first clear_outdated that runs at a time >= t + d; once every lifetime
\* is removed, reading the Variable and its can_be_reset / can_edit_value
\* flags fails with the undefined-variable error, until a lifetime is added.
C7_TemporalExpiryThenUndefined ==
    /\ last.op = "clear_outdated" =>
          \A i \in 1 .. Len(last.pre.lifetimes) :
              LET l == last.pre.lifetimes[i]
              IN  (l.is_temporal /\ last.time >= l.creation_time + l.temporal_duration)
                      => l.nth \notin Nths(var)
    /\ var.lifetimes = <<>> =>
          /\ Variable_value(var).err = "VariableIsUndefined"
          /\ Variable_can_be_reset(var).err = "VariableIsUndefined"
          /\ Variable_can_edit_value(var).err = "VariableIsUndefined"
    /\ (last.pre.lifetimes = <<>> /\ var.lifetimes # <<>>) => last.op = "add_lifetime"

C7_Witness ==
    /\ last.op = "clear_outdated"
    /\ var.lifetimes = <<>>
    /\ Len(last.pre.lifetimes) = 1
    /\ last.pre.lifetimes[1].is_temporal
    /\ last.pre.lifetimes[1].lines_left > 0
    /\ last.time = last.pre.lifetimes[1].creation_time
                       + last.pre.lifetimes[1].temporal_duration
    /\ now > last.time

\* C8: add_lifetime appends exactly one value to the history, the value
\* observed just before the call, when and only when the new lifetime becomes
\* the head of a previously non-empty list; otherwise the history is
\* unchanged.  clear_outdated never changes the history.
C8_HistoryOnNewHead ==
    /\ last.op = "add_lifetime" =>
          IF last.pre.lifetimes # <<>> /\ var.lifetimes[1].nth = last.val.nth
          THEN var.prev_values =
                   Append(last.pre.prev_values, last.pre.lifetimes[1].value)
          ELSE var.prev_values = last.pre.prev_values
    /\ last.op = "clear_outdated" => var.prev_values = last.pre.prev_values

C8_Witness ==
    /\ last.op = "add_lifetime"
    /\ Len(last.pre.prev_values) = 1
    /\ Len(var.prev_values) = 2
    /\ var.prev_values[1] # var.prev_values[2]
    /\ Len(var.lifetimes) = 3

\* C9: clear_outdated removes exactly the lifetimes with lines_left == 0 or
\* with is_temporal and now - created_at >= temporal_duration; every other
\* lifetime is kept, with its fields and its relative order unchanged.
C9_Expired(l) ==
    \/ l.lines_left = 0
    \/ l.is_temporal /\ last.time - l.creation_time >= l.temporal_duration
C9_Kept(l) == ~C9_Expired(l)

C9_ClearRemovesExactlyOutdated ==
    last.op = "clear_outdated" =>
        var.lifetimes = SelectSeq(last.pre.lifetimes, C9_Kept)

C9_Witness ==
    /\ last.op = "clear_outdated"
    /\ Len(last.pre.lifetimes) = 3 /\ Len(var.lifetimes) = 2
    /\ C9_Expired(last.pre.lifetimes[2])
    /\ ~var.lifetimes[1].is_temporal /\ var.lifetimes[1].lines_left # 0
    /\ var.lifetimes[2].is_temporal

(***************************************************************************)
(* Claims about Number (SpecNum).                                          *)
(***************************************************************************)
\* C10: for every integral Number n (0 and negative numbers included) and
\* integral index i within the digit positions, index_set(i, d) with a digit
\* d replaces exactly the digit at position i of the unsigned decimal
\* representation, leaves the sign, the number of digits and every other
\* digit unchanged, and the number prints as those digits (123 with
\* index_set(0, 9) prints as 193).
C10_DigitAssign ==
    (/\ recv = "Number" /\ last.op = "assign_index"
     /\ last.index.t = "Number" /\ is_int(last.index.v)
     /\ -KeyDen <= last.index.v
     /\ last.index.v <= (Len(Digits(last.pre.mag)) - 2) * KeyDen
     /\ last.val.t = "Number" /\ is_int(last.val.v)
     /\ 0 <= last.val.v /\ last.val.v <= 9 * KeyDen) =>
        LET old == Digits(last.pre.mag)
            i == last.index.v \div KeyDen
            new == [old EXCEPT ![i + 2] = DigitChars[(last.val.v \div KeyDen) + 1]]
        IN  /\ last.err = ""
            /\ num.neg = last.pre.neg
            /\ Digits(num.mag) = new
            /\ db_to_string(num) = (IF last.pre.neg THEN <<"-">> ELSE <<>>) \o new

\* C11: on an integral Number whose unsigned decimal digits are d1 .. dn,
\* index_get(i) for an integral i in -1 .. n-2 returns the digit d(i+2), and
\* a non-Number key, a non-integral key or an integral key outside -1 .. n-2
\* fails with one of the interpreter's indexing errors.
C11_DigitRead ==
    recv = "Number" =>
        \A index \in NumIndexes :
            LET out == Number_access_index(num, index)
                ds == Digits(num.mag)
            IN  IF /\ index.t = "Number" /\ is_int(index.v)
                   /\ -KeyDen <= index.v /\ index.v <= (Len(ds) - 2) * KeyDen
                THEN /\ out.err = ""
                     /\ out.ret = Int_(DigitVal(ds[(index.v \div KeyDen) + 2]))
                ELSE out.err \in {"NonNumberIndex", "ExpectedInteger", "OutOfBounds"}

\* C12: index_set on a Number whose value argument is not a Number, is not
\* integral or lies outside 0 .. 9 fails with an error and leaves the
\* receiving number unchanged.
C12_BadDigitRejected ==
    (/\ recv = "Number" /\ last.op = "assign_index"
     /\ \/ last.val.t # "Number"
        \/ ~is_int(last.val.v)
        \/ last.val.v < 0 \/ last.val.v > 9 * KeyDen) =>
        last.err # "" /\ num = last.pre

C12_Witness ==
    /\ recv = "Number" /\ last.op = "assign_index"
    /\ last.pre = Int_(123) /\ last.index = Num(0)
    /\ last.val = Num(10 * KeyDen)
    /\ last.err = "NonIntegerValue" /\ num = Int_(123)

\* C13: index_set on a List or a String with an in-range key k that is not
\* yet a user index splices the value (for a String its string form) at real
\* position floor(max(k + 2, 0)), records k in the indexer, raises the real
\* position of every user index > k by the length inserted and leaves the
\* real position of every user index <= k alone.
InsertedSeq == IF recv = "List" THEN <<last.val>> ELSE db_to_string(last.val)
Elements(R) == IF recv = "List" THEN R.values ELSE R.value
RealIndex(R, k) == IF recv = "List" THEN R.indexer[k] ELSE R.indexer[k].real

C13_InsertSplicesAndShifts ==
    (/\ recv \in {"List", "String"} /\ last.op = "assign_index"
     /\ last.index.t = "Number"
     /\ -KeyDen <= last.index.v
     /\ last.index.v <= (Len(Elements(last.pre)) - 1) * KeyDen
     /\ last.index.v \notin DOMAIN last.pre.indexer) =>
        LET k == last.index.v
            n == nearest_int_down(k)
            old == Elements(last.pre)
        IN  /\ last.err = ""
            /\ n <= Len(old)
            /\ Elements(Receiver) = SubSeq(old, 1, n) \o InsertedSeq
                                        \o SubSeq(old, n + 1, Len(old))
            /\ k \in DOMAIN Receiver.indexer
            /\ \A j \in DOMAIN last.pre.indexer :
                  /\ j \in DOMAIN Receiver.indexer
                  /\ RealIndex(Receiver, j) =
                        RealIndex(last.pre, j) + (IF j > k THEN Len(InsertedSeq) ELSE 0)

\* C14: on a List of one element index_get(-1) returns the element and
\* index_get(0) fails with the out-of-bounds error, no other kind of error.
C14_OneElementList ==
    (recv = "List" /\ nops = 0 /\ Len(lst.values) = 1) =>
        /\ SameAnswer(AccessIndex(lst, -KeyDen), Outcome(lst, "", lst.values[1]))
        /\ AccessIndex(lst, 0).err = "OutOfBounds"

\* C15: index_get on a List or a String fails with an index error when the
\* key is not a Number, lies outside [-1, len-1] or is not a user index of
\* the indexer; a failed index_get and a failed index_set leave the
\* receiver's elements, indexer and length as they were.
IndexErrors == {"NonNumberIndex", "OutOfBounds", "NoValueAssigned"}
IndexGet(R, index) ==
    IF recv = "List" THEN List_access_index(R, index)
    ELSE String_access_index(R, index)

C15_FailedIndexingChangesNothing ==
    recv \in {"List", "String"} =>
        /\ \A index \in Indexes :
              LET out == IndexGet(Receiver, index)
              IN  /\ (\/ index.t # "Number"
                      \/ index.v < -KeyDen
                      \/ index.v > (Len(Elements(Receiver)) - 1) * KeyDen
                      \/ index.v \notin DOMAIN Receiver.indexer)
                         => out.err \in IndexErrors
                  /\ out.err # "" => out.st = Receiver
        /\ (last.op = "assign_index" /\ last.err # "") => Receiver = last.pre

C15_Witness ==
    /\ recv = "List" /\ nops = 2
    /\ last.op = "assign_index" /\ last.err = "OutOfBounds"
    /\ lst = last.pre /\ Len(lst.values) = 3
    /\ KeyDen \div 2 \in DOMAIN lst.indexer
    /\ List_access_index(lst, Num(KeyDen + KeyDen \div 2)).err = "NoValueAssigned"
    /\ List_access_index(lst, Num(3 * KeyDen)).err = "OutOfBounds"
    /\ List_access_index(lst, NonNumber).err = "NonNumberIndex"

(***************************************************************************)
(* Claims about db_signal (SpecSignal).                                    *)
(***************************************************************************)
\* the value the function f holds in the store S
Stored(S, f) == S.objs[S.closures[f]]

\* C16: for the setter-getters returned by use: a call with the blank value
\* returns the argument of the most recent non-blank call of that
\* setter-getter (the starting value if there was none) and changes no
\* stored value; a call with any other value stores it; a call of one
\* setter-getter, and a further use, leave what every other setter-getter
\* holds as it was.
C16_SetterGetter ==
    recv = "Signal" =>
        /\ \A f \in 1 .. Len(signals.closures) : Stored(signals, f) = signals.written[f]
        /\ last.op = "call" =>
              /\ IF last.val.t = "Blank"
                 THEN /\ last.ret = last.pre.written[last.f]
                      /\ signals.objs = last.pre.objs
                 ELSE Stored(signals, last.f) = last.val
              /\ \A g \in 1 .. Len(signals.closures) :
                    g # last.f => Stored(signals, g) = Stored(last.pre, g)
        /\ last.op = "use" =>
              /\ Stored(signals, last.f) = last.val
              /\ \A g \in 1 .. Len(last.pre.closures) :
                    Stored(signals, g) = Stored(last.pre, g)

C16_Witness ==
    /\ recv = "Signal" /\ Len(signals.closures) = 2
    /\ last.op = "call" /\ last.f = 1 /\ last.val.t = "Blank"
    /\ last.ret = Num(KeyDen)
    /\ Stored(signals, 2) = Num(0)
    /\ nops = 3

(***************************************************************************)
(* Claims about the when statement (SpecWhen).                             *)
(***************************************************************************)
\* the head value of c before the i-th assignment of the trace
HeadBefore(W, i) == IF i = 1 THEN 0 ELSE W.trace[i - 1]
\* the assignments after the registration that changed c to a value that
\* makes the condition truthy
Changes(W) ==
    {i \in W.regAt + 1 .. Len(W.trace) :
        W.trace[i] # HeadBefore(W, i) /\ WhenCond(W.trace[i])}

\* C17: a `when c == 3` watcher registered while c is 0 and followed by
\* c = 1, c = 3, c = 3, c = 4 runs its body exactly once: the body runs once
\* at the registration if the condition is truthy then, and afterwards once
\* for every assignment that changes the head value of c to one that makes
\* the condition truthy; an assignment of the value c already has is not
\* a change.
C17_WhenFiresOnChange ==
    (recv = "When" /\ watch.registered) =>
        /\ watch.hits = Cardinality(Changes(watch))
                + (IF WhenCond(HeadBefore(watch, watch.regAt + 1)) THEN 1 ELSE 0)
        /\ (watch.regAt = 0 /\ watch.trace = <<1, 3, 3, 4>>) => watch.hits = 1

C17_Witness ==
    /\ recv = "When" /\ watch.registered /\ watch.regAt = 0
    /\ watch.trace = <<1, 3, 3, 4>> /\ watch.hits = 1 /\ watch.c = 4

(***************************************************************************)
(* Claims about the conversions (SpecConv).                                *)
(***************************************************************************)
ValueVariants ==
    {"Number", "String", "List", "Map", "Boolean", "Undefined", "Function",
     "Object", "Keyword"}

\* C18: to_boolean, to_number and to_string are total: applied to a value
\* of any variant (Number, String, List, Map, Boolean, Undefined, Function,
\* Object, Keyword; non-empty lists and maps too) each returns a value and
\* never fails.
C18_ConversionsTotal ==
    (/\ recv = "Conv" /\ last.op \in {"to_boolean", "to_number", "to_string"}
     /\ last.val.t \in ValueVariants) =>
        last.err = ""

\* C19: to_boolean of any value returns one of true, false, maybe, and
\* to_boolean of that result returns the same result.
C19_ToBooleanIdempotent ==
    (recv = "Conv" /\ conv.t \in ValueVariants) =>
        LET out == db_to_boolean(conv)
        IN  /\ out.err = ""
            /\ out.ret.t = "Boolean"
            /\ out.ret.bool \in {"true", "false", "maybe"}
            /\ db_to_boolean(out.ret).err = ""
            /\ db_to_boolean(out.ret).ret = out.ret

\* what the claims say of a number, stated on its representation
IsFinite(N) == Special(N) \in {"", "tiny"}
IsZero(N) == Special(N) = "" /\ N.mag = 0 /\ Frac(N) = 0
RoundsToZero(N) ==
    \/ Special(N) = "tiny"
    \/ Special(N) = "" /\ py_round_frac(N.mag, Frac(N)) = 0
\* abs(x) > FLOAT_TO_INT_PREC: every non-zero multiple of 1 / FracDen is
AbovePrec(N) == Special(N) \in {"inf", "nan"} \/ (Special(N) = "" /\ ~IsZero(N))
HasInk(cs) == \E i \in 1 .. Len(cs) : cs[i] # " "
ToBooleanIs(val, x) ==
    db_to_boolean(val).err = "" /\ db_to_boolean(val).ret = Bool(x)

\* what C20 says of strings, functions, objects, keywords, of the number 0
\* and of the numbers that round to a non-zero integer
C20_Rest(val) ==
    /\ (val.t = "String" /\ val.value = <<>>) => ToBooleanIs(val, "false")
    /\ (val.t = "String" /\ val.value # <<>> /\ ~HasInk(val.value))
          => ToBooleanIs(val, "maybe")
    /\ (val.t = "String" /\ HasInk(val.value)) => ToBooleanIs(val, "true")
    /\ val.t \in {"Function", "Object", "Keyword"} => ToBooleanIs(val, "maybe")
    /\ (val.t = "Number" /\ IsZero(val)) => ToBooleanIs(val, "false")
    /\ (val.t = "Number" /\ IsFinite(val) /\ ~RoundsToZero(val))
          => ToBooleanIs(val, "true")

\* C20 as stated: to_boolean is false for the empty string and the number
\* 0, maybe for a non-empty string of whitespace only and for every
\* non-zero number that rounds to zero, maybe for functions, objects and
\* keywords, true for a string with a non-whitespace character and for a
\* number that rounds to a non-zero integer.
C20_AsStated ==
    recv = "Conv" =>
        /\ C20_Rest(conv)
        /\ (conv.t = "Number" /\ ~IsZero(conv) /\ RoundsToZero(conv))
              => ToBooleanIs(conv, "maybe")

\* C20, amended: as stated, except that a number that rounds to zero is
\* maybe only when its magnitude exceeds FLOAT_TO_INT_PREC (1e-8); a number
\* of magnitude at most FLOAT_TO_INT_PREC is false, zero or not.
C20_ToBooleanMatrix ==
    recv = "Conv" =>
        /\ C20_Rest(conv)
        /\ (conv.t = "Number" /\ AbovePrec(conv) /\ RoundsToZero(conv))
              => ToBooleanIs(conv, "maybe")
        /\ (conv.t = "Number" /\ IsFinite(conv) /\ ~AbovePrec(conv))
              => ToBooleanIs(conv, "false")

C20_Witness ==
    /\ recv = "Conv" /\ last.op = "to_boolean"
    /\ last.val.t = "Number" /\ Special(last.val) = "tiny"
    /\ last.err = "" /\ last.ret.bool = "false"
    /\ ToBooleanIs(Float_(FALSE, 0, FracDen \div 2), "maybe")
    /\ ToBooleanIs(Str(<<" ">>), "maybe")

(***************************************************************************)
(* Claims about negation, maps and the string round trip (SpecConv).       *)
(***************************************************************************)
\* C21: negation is Kleene's: not true = false, not false = true and
\* not maybe = maybe; negating the result again gives back the operand.
C21_KleeneNegation ==
    (recv = "Conv" /\ last.op = "not") =>
        /\ last.err = ""
        /\ last.val = Bool("true") => last.ret = Bool("false")
        /\ last.val = Bool("false") => last.ret = Bool("true")
        /\ last.val = Bool("maybe") => last.ret = Bool("maybe")
        /\ db_not(last.ret) = last.val

\* the second call of a run negates maybe
C21_Witness ==
    /\ recv = "Conv" /\ nops = 2 /\ last.op = "not"
    /\ last.val = Bool("maybe") /\ last.ret = Bool("maybe")

\* an int, or a float without a fractional part
IsInteger(val) == val.t = "Number" /\ Special(val) = "" /\ Frac(val) = 0

\* C23: on an integer, to_string after Number after to_string returns a
\* string on which the same composition returns that string again.
C23_RoundTripIdempotent ==
    (recv = "Conv" /\ last.op = "round_trip" /\ IsInteger(last.val)) =>
        /\ last.err = ""
        /\ RoundTrip(last.ret) = Outcome(last.ret, "", last.ret)

\* the composition has been applied to 120 and then to its result "120.0"
C23_Witness ==
    /\ recv = "Conv" /\ nops = 2 /\ last.op = "round_trip"
    /\ last.val = Str(<<"1", "2", "0", ".", "0">>)
    /\ last.ret = last.val

(***************************************************************************)
(* Claims about Map (SpecMap).                                             *)
(***************************************************************************)
\* C22: after index_set(k, v) with a Number or String key, index_get(k)
\* returns v and every other key reads as before; index_get of an absent
\* key fails with a key error; index_get and index_set with a key that is
\* neither a Number nor a String fail; a failed operation leaves the map
\* as it was.
C22_MapGetSet ==
    recv = "Map" =>
        /\ \A index \in MapIndexes :
             LET got == Map_access_index(map, index) IN
             /\ got.st = map
             /\ ~IsMapKey(index) => got.err = "BadMapKey"
             /\ (IsMapKey(index) /\ \A i \in 1 .. Len(map.self_dict) :
                                        map.self_dict[i].k # index)
                    => got.err = "KeyError"
        /\ last.op = "assign" =>
             /\ ~IsMapKey(last.index) => last.err = "BadMapKey"
             /\ last.err # "" => map = last.pre
             /\ IsMapKey(last.index) =>
                  /\ last.err = ""
                  /\ Map_access_index(map, last.index) = Outcome(map, "", last.val)
                  /\ \A other \in MapKeys \ {last.index} :
                       Map_access_index(map, other).err
                           = Map_access_index(last.pre, other).err
                       /\ Map_access_index(map, other).ret
                           = Map_access_index(last.pre, other).ret

\* a key that was in the map has been given another value, while another
\* key is in the map and a third is absent
C22_Witness ==
    /\ recv = "Map" /\ last.op = "assign" /\ last.err = ""
    /\ Map_access_index(last.pre, last.index).err = ""
    /\ Map_access_index(last.pre, last.index).ret # last.val
    /\ Len(map.self_dict) = 2
    /\ Map_access_index(map, Str(<<>>)).err = "KeyError"

(***************************************************************************)
(* Claims about the initialisation of the built-in module (SpecModule).    *)
(***************************************************************************)
RECURSIVE IsSubsequence(_, _)
\* s can be had from w by leaving letters out
IsSubsequence(s, w) ==
    IF s = <<>> THEN TRUE
    ELSE IF w = <<>> THEN FALSE
    ELSE IF Head(s) = Head(w) THEN IsSubsequence(Tail(s), Tail(w))
    ELSE IsSubsequence(s, Tail(w))

\* the letters of w at the positions P, in the order of w
RECURSIVE Picked(_, _)
Picked(w, P) ==
    IF P = {} THEN <<>>
    ELSE LET p == SetMax(P) IN Append(Picked(w, P \ {p}), w[p])

\* C24: the set of function aliases is the set of the non-empty
\* subsequences of the letters of "function", together with "fn": it holds
\* neither the empty string nor a string that is no such subsequence.
C24_FunctionAliases ==
    (recv = "Module" /\ "FUNCTION_KEYWORDS" \in mod.defined) =>
        LET aliases == mod.tables.FUNCTION_KEYWORDS IN
        /\ aliases = {Picked(Word, P) : P \in (SUBSET (1 .. Len(Word))) \ {{}}}
                         \cup {<<"f", "n">>}
        /\ <<>> \notin aliases
        /\ \A s \in aliases : s # <<>> /\ IsSubsequence(s, Word)

\* FUNCTION_KEYWORDS has been assigned after all the passes of the loops
C24_Witness ==
    /\ recv = "Module" /\ "FUNCTION_KEYWORDS" \in mod.defined
    /\ mod.mask = 2 ^ Len(Word)
    /\ {<<"f", "n">>, <<"f", "u", "n">>, Word} \subseteq mod.tables.FUNCTION_KEYWORDS

\* C25: the initialisation runs to its end: no statement reads a name that
\* only a later statement binds.
C25_InitialisationCompletes == recv = "Module" => mod.err = ""

(***************************************************************************)
(* Claims about push, pop, length and the order of the indexer (SpecSeq).  *)
(***************************************************************************)
\* what a push adds to the elements, and what index_get returns for it
Pushed == IF recv = "List" THEN last.val ELSE db_to_string(last.val)
PushedSeq == IF recv = "List" THEN <<last.val>> ELSE db_to_string(last.val)

\* C26: push(v) on a List or String, empty or not, appends v after the last
\* element and gives it the user index one above the greatest user index
\* there was (the first user index, -1, on an empty receiver); index_get
\* at the new user index returns v and every earlier user index returns
\* what it returned before.
C26_PushAppends ==
    (recv \in {"List", "String"} /\ last.op = "push") =>
        LET old == DOMAIN last.pre.indexer
            new == IF old = {} THEN -KeyDen ELSE SetMax(old) + KeyDen
        IN  /\ last.err = ""
            /\ Elements(Receiver) = Elements(last.pre) \o PushedSeq
            /\ DOMAIN Receiver.indexer = old \cup {new}
            /\ SameAnswer(AccessIndex(Receiver, new), Outcome(Receiver, "", Pushed))
            /\ \A k \in old :
                  SameAnswer(AccessIndex(Receiver, k), AccessIndex(last.pre, k))

\* C27: pop with the blank value removes and returns the last element;
\* pop(i) with an integral i removes and returns the element index_get(i)
\* returned just before; with an i that is no Number, not integral or has
\* no element, pop fails with the interpreter's type or bounds error and
\* leaves the receiver as it was.
C27_PopRemovesWhatIndexGetReturned ==
    (recv \in {"List", "String"} /\ last.op = "pop") =>
        LET old == Elements(last.pre)
            got == IndexGet(last.pre, last.index)
            one(x) == IF recv = "List" THEN x ELSE <<x>>
        IN  IF last.index.t = "Blank"
            THEN old # <<>> =>
                    /\ last.err = ""
                    /\ last.ret = one(old[Len(old)])
                    /\ Elements(Receiver) = SubSeq(old, 1, Len(old) - 1)
            ELSE IF last.index.t = "Number" /\ is_int(last.index.v) /\ got.err = ""
            THEN /\ last.err = ""
                 /\ last.ret = got.ret
                 /\ Len(Elements(Receiver)) = Len(old) - 1
            ELSE /\ last.err \in {"ExpectedInteger", "OutOfBounds"}
                 /\ Receiver = last.pre

\* C28: after any sequence of push, pop and index_set on a List or String
\* the length member of its namespace is the number of its elements
\* (characters).
C28_LengthIsCount ==
    recv \in {"List", "String"} => Receiver.length = Len(Elements(Receiver))

\* the receiver R is as its constructor leaves it
IsFresh(R) ==
    IF recv = "List" THEN R = List_post_init(R.values) ELSE R = String_post_init(R.value)
\* every call so far was an index_set with a fractional key, or the
\* receiver was as new before the last such call
OnlyFractionalSets ==
    \/ nops = 0
    \/ /\ last.op = "assign_index"
       /\ last.index.t = "Number" /\ ~is_int(last.index.v)
       /\ \/ IsFresh(last.pre)
          \/ nops = 2 /\ \E k \in DOMAIN last.pre.indexer : ~is_int(k)

StrictlyOrdered(R) ==
    \A j, k \in DOMAIN R.indexer : j < k => RealIndex(R, j) < RealIndex(R, k)

\* C29: after index_set calls with fractional keys only, the indexer of a
\* List or String is strictly order-preserving: of two user indices the
\* smaller has the smaller real position.
C29_IndexerOrderPreserving ==
    (recv \in {"List", "String"} /\ OnlyFractionalSets) => StrictlyOrdered(Receiver)

(***************************************************************************)
(* Claim about the digits of a Number (SpecNum).                           *)
(***************************************************************************)
\* the indices for which index_get on N returns a digit
DigitIndices(N) == {index \in NumIndexes : Number_access_index(N, index).err = ""}

\* C30: for an integral Number, an integral index within its digit
\* positions and a digit d, index_set(i, d) done again leaves the number as
\* the first index_set left it, index_get(i) then returns d, and the
\* indices that have a digit are those that had one before.
C30_DigitAssignIdempotent ==
    (/\ recv = "Number" /\ last.op = "assign_index"
     /\ last.index.t = "Number" /\ is_int(last.index.v)
     /\ -KeyDen <= last.index.v
     /\ last.index.v <= (Len(Digits(last.pre.mag)) - 2) * KeyDen
     /\ IsDigitValue(last.val)) =>
        /\ last.err = ""
        /\ Number_assign_index(num, last.index, last.val) = Outcome(num, "", NoDigit)
        /\ SameAnswer(Number_access_index(num, last.index),
                      Outcome(num, "", Int_(last.val.v \div KeyDen)))
        /\ DigitIndices(num) = DigitIndices(last.pre)

====
